---- MODULE Spec2Model ----
(****************************************************************************)
(* A model of the cluster registry (PrometheusClusterMap) and of the        *)
(* custom pricing provider (CustomProvider) of cost-model.                  *)
(*                                                                          *)
(* Go strings are sequences of one-character strings, so that formatting    *)
(* ("%s/%s"), splitting (strings.Split) and strconv.ParseFloat are computed *)
(* character by character.  The empty string is << >>.  The keys of the     *)
(* object UpdateConfig decodes are sequences of runes (code points), which  *)
(* strings.Title works on.  The node rates and the label names and values   *)
(* of the pricing provider are only copied and compared: they are TLA+      *)
(* strings, and a label field read without the lock is the pair of a data   *)
(* pointer and a length.  A feature tag is the sequence of its              *)
(* comma-separated parts: "default,spot" is << "default", "spot" >>.        *)
(* A float64 is its kind (num, inf, nan), sign, odd mantissa and binary     *)
(* exponent; every operation rounds to nearest, ties to even.               *)
(****************************************************************************)
EXTENDS Integers, Sequences, FiniteSets, TLC

VARIABLES
    \* ---- PrometheusClusterMap ----
    clusters,      \* pcm.clusters: cluster id -> ClusterInfo
    origin,        \* ghost: cluster id -> number of the refresh cycle that built the entry
    snapCycle,     \* ghost: number of the refresh cycle that built the map (0: the constructor's)
    cycle,         \* ghost: number of map-building refresh cycles so far
    task,          \* the goroutine started by NewClusterMap
    lock,          \* pcm.lock
    readers,       \* the threads calling the read operations
    pcmStop,       \* pcm.stop: the field, a channel reference or nil
    stopClosed,    \* number of close() calls that hit the stop channel
    fault,         \* a runtime fault (panic) has happened
    stoppers,      \* the threads calling StopRefresh
    lastRefresh,   \* ghost: outcome of the last finished refreshClusters call, and of the first
    loadCall,      \* ghost: the query result and the local provider's answer of the last loadClusters
    \* ---- callers of NameIDFor / SplitNameID ----
    nameCall,      \* the last NameIDFor call and the SplitNameID of its result
    \* ---- aliasing of the values AsMap / InfoFor return ----
    heap,          \* the objects: recs, address -> ClusterInfo; maps, address -> (id -> address)
    pcmRefs,       \* pcm.clusters as a reference: the address of its map
    copies,        \* what a caller holds of AsMap and InfoFor: handle -> returned reference
    copyLog,       \* ghost: the last operation of the caller and the handle it used
    \* ---- CustomProvider ----
    config,        \* the CustomPricing that cp.Config.GetCustomPricingData() returns
    configErr,     \* cp.Config cannot load the configuration: GetCustomPricingData returns an error
    pricing,       \* cp.Pricing: nil, or a map from feature tag to NodePrice
    cpLabels,      \* cp.SpotLabel, cp.SpotLabelValue, cp.GPULabel, cp.GPULabelValue
    nodeCall,      \* the key a caller got from GetKey and the outcome of NodePricing on it
    updateCall,    \* the caller of UpdateConfig: where it is in the call, and what the
                   \* update of the configuration returned
    lbCall,        \* the last computation of the load-balancer cost: its inputs and its result
    rebuild,       \* the DownloadPricingData that holds the write lock: its position, its
                   \* caller and the configuration it fetched
    allCall        \* what a caller of AllNodePricing got and what it last read through it

regVars   == <<clusters, origin, snapCycle, cycle, task, lock, readers,
               pcmStop, stopClosed, fault, stoppers, lastRefresh, loadCall>>
nameVars  == <<nameCall>>
copyVars  == <<heap, pcmRefs, copies, copyLog>>
tableVars == <<rebuild, allCall>>
priceVars == <<config, configErr, pricing, cpLabels, nodeCall, updateCall, lbCall, tableVars>>
vars      == <<regVars, nameVars, copyVars, priceVars>>

----------------------------------------------------------------------------
(* Strings *)

Empty == << >>
Slash == "/"

\* a + b
Concat(a, b) == a \o b

\* strings.Contains(s, "/")
ContainsSlash(s) == \E i \in 1..Len(s) : s[i] = Slash

\* Index of the first "/" of s, or 0
RECURSIVE FirstSlashFrom(_, _)
FirstSlashFrom(s, i) ==
    IF i > Len(s) THEN 0
    ELSE IF s[i] = Slash THEN i
    ELSE FirstSlashFrom(s, i + 1)

\* strings.Split(s, "/"): the substrings between the separators, in order;
\* n separators give n + 1 substrings.
RECURSIVE SplitSlash(_)
SplitSlash(s) ==
    LET i == FirstSlashFrom(s, 1) IN
    IF i = 0 THEN << s >>
    ELSE << SubSeq(s, 1, i - 1) >> \o SplitSlash(SubSeq(s, i + 1, Len(s)))

\* All strings over alphabet of length at most n
RECURSIVE StringsUpTo(_, _)
StringsUpTo(alphabet, n) ==
    IF n = 0 THEN { Empty }
    ELSE LET shorter == StringsUpTo(alphabet, n - 1) IN
         shorter \cup { Append(s, c) : s \in shorter, c \in alphabet }

----------------------------------------------------------------------------
(* Go maps: a map is a function whose domain is the set of its keys *)

EmptyMap == [k \in {} |-> Empty]

\* m[k] = v
Put(m, k, v) == [x \in (DOMAIN m) \cup {k} |-> IF x = k THEN v ELSE m[x]]

\* for k, v := range src { dst[k] = v }
PutAll(dst, src) ==
    [x \in (DOMAIN dst) \cup (DOMAIN src) |-> IF x \in DOMAIN src THEN src[x] ELSE dst[x]]

Restrict(m, keys) == [x \in keys |-> m[x]]

----------------------------------------------------------------------------
(* ClusterInfo and loadClusters *)

LoadRetries == 6

ClusterInfo(id, name, profile, provider, provisioner) ==
    [ID |-> id, Name |-> name, Profile |-> profile,
     Provider |-> provider, Provisioner |-> provisioner]

\* QueryResult.GetString(label): the label's value, or an error when the row
\* does not carry the label.  A row is a function from its labels to strings.
GetString(row, label) ==
    IF label \in DOMAIN row THEN [err |-> FALSE, val |-> row[label]]
    ELSE [err |-> TRUE, val |-> Empty]

\* The body of the loop over the query results: the entry a row makes, if any
RowValid(row) == ~GetString(row, "id").err /\ ~GetString(row, "name").err

RowInfo(row) ==
    LET profile     == GetString(row, "clusterprofile")
        provider    == GetString(row, "provider")
        provisioner == GetString(row, "provisioner")
    IN  ClusterInfo(GetString(row, "id").val,
                    GetString(row, "name").val,
                    IF profile.err THEN Empty ELSE profile.val,
                    IF provider.err THEN Empty ELSE provider.val,
                    IF provisioner.err THEN Empty ELSE provisioner.val)

\* The mutant of LoadRow that keeps a row without a name
LoadRowKeepNameless(m, row) ==
    IF GetString(row, "id").err THEN m
    ELSE Put(m, GetString(row, "id").val, RowInfo(row))

LoadRow(m, row) ==
    IF GetString(row, "id").err THEN m
    ELSE IF GetString(row, "name").err THEN m
    ELSE Put(m, GetString(row, "id").val, RowInfo(row))

\* for _, result := range qr { ... }, from row i on
RECURSIVE LoadRows(_, _, _)
LoadRows(m, qr, i) ==
    IF i > Len(qr) THEN m
    ELSE LoadRows(LoadRow(m, qr[i]), qr, i + 1)

GetLocalClusterInfoNameless(info) ==
    IF "id" \notin DOMAIN info THEN [err |-> TRUE, info |-> EmptyMap]
    ELSE [err |-> FALSE,
          info |-> ClusterInfo(info["id"],
                      IF "name" \in DOMAIN info THEN info["name"] ELSE Empty,
                      Empty, Empty, Empty)]
\* getLocalClusterInfo: info is the map the LocalClusterInfoProvider returns
GetLocalClusterInfo(info) ==
    IF "id" \notin DOMAIN info THEN [err |-> TRUE, info |-> EmptyMap]
    ELSE IF "name" \notin DOMAIN info THEN [err |-> TRUE, info |-> EmptyMap]
    ELSE [err |-> FALSE,
          info |-> ClusterInfo(info["id"], info["name"],
                      IF "clusterProfile" \in DOMAIN info THEN info["clusterProfile"] ELSE Empty,
                      IF "provider" \in DOMAIN info THEN info["provider"] ELSE Empty,
                      IF "provisioner" \in DOMAIN info THEN info["provisioner"] ELSE Empty)]

\* The local entry loadClusters adds to m, as a map of at most one entry
LocalEntry(m, localID, info) ==
    IF localID \in DOMAIN m THEN EmptyMap
    ELSE LET li == GetLocalClusterInfo(info) IN
         IF li.err THEN EmptyMap
         ELSE Put(EmptyMap, li.info.ID, li.info)

\* loadClusters after a successful query: the map built from the rows qr, for
\* the process's cluster id localID and the local provider's answer info
LoadClusters(qr, localID, info) ==
    LET m == LoadRows(EmptyMap, qr, 1) IN
    PutAll(m, LocalEntry(m, localID, info))

----------------------------------------------------------------------------
(* The inputs of the registry: the process's cluster id, what the          *)
(* time-series backend answers and what the local provider answers         *)

MaxCycles    == 2     \* map-building refresh cycles in one behaviour
MaxStopCalls == 2     \* StopRefresh calls in one behaviour

\* env.GetClusterID()
LocalClusterID == << "l" >>

Readers  == { "r1", "r2" }
Stoppers == { "s1", "s2" }

\* The row lists a successful query returns
Responses ==
    { << [id |-> << "a" >>, name |-> << "n" >>, provider |-> << "g" >>] >>,
      << [id |-> << "a" >>, name |-> << "m" >>],
         [name |-> << "n" >>],
         [id |-> << "b" >>, name |-> Empty] >> }

\* The maps LocalClusterInfoProvider.GetClusterInfo() returns
LocalInfos ==
    { [id |-> LocalClusterID, name |-> << "h" >>, provider |-> << "c" >>],
      [name |-> << "h" >>] }

\* The cluster ids the read operations are called with
QueryIDs == { << "a" >>, << "c" >> }

----------------------------------------------------------------------------
(* The read operations, on the map m they find in pcm.clusters *)

\* GetClusterIDs (the slice as the set of its elements)
GetClusterIDs(m) == DOMAIN m

\* InfoFor; Nil stands for the nil pointer
Nil == [nil |-> TRUE]
InfoFor(m, clusterID) ==
    IF clusterID \in DOMAIN m THEN m[clusterID] ELSE Nil

\* NameFor
NameFor(m, clusterID) ==
    IF clusterID \in DOMAIN m THEN m[clusterID].Name ELSE Empty

\* The mutant of NameIDFor that formats the id before the name
NameIDForSwapped(m, clusterID) ==
    IF clusterID \in DOMAIN m
    THEN IF m[clusterID].Name = Empty THEN clusterID
         ELSE Concat(Concat(clusterID, << Slash >>), m[clusterID].Name)
    ELSE clusterID

\* The mutant of NameIDFor that formats name and id whatever the name is
NameIDForAlwaysFormats(m, clusterID) ==
    Concat(Concat(NameFor(m, clusterID), << Slash >>), clusterID)

\* NameIDFor: fmt.Sprintf("%s/%s", info.Name, clusterID)
NameIDFor(m, clusterID) ==
    IF clusterID \in DOMAIN m
    THEN IF m[clusterID].Name = Empty THEN clusterID
         ELSE Concat(Concat(m[clusterID].Name, << Slash >>), clusterID)
    ELSE clusterID

\* SplitNameID
SplitNameID(nameID) ==
    IF ~ContainsSlash(nameID) THEN [id |-> nameID, name |-> Empty]
    ELSE LET split == SplitSlash(nameID) IN
         [id |-> split[2], name |-> split[1]]

\* What a read operation returns on m
ReadResult(op, arg, m) ==
    CASE op = "GetClusterIDs" -> GetClusterIDs(m)
      [] op = "AsMap"         -> m
      [] op = "InfoFor"       -> InfoFor(m, arg)
      [] op = "NameFor"       -> NameFor(m, arg)
      [] op = "NameIDFor"     -> NameIDFor(m, arg)

\* The entries of m a read operation looks at
ReadKeys(op, arg, m) ==
    IF op \in { "GetClusterIDs", "AsMap" } THEN DOMAIN m
    ELSE (DOMAIN m) \cap { arg }

ReadCalls ==
    { [op |-> "GetClusterIDs", arg |-> Empty], [op |-> "AsMap", arg |-> Empty] }
    \cup [op : { "InfoFor", "NameFor", "NameIDFor" }, arg : QueryIDs]

----------------------------------------------------------------------------
(* refreshClusters and the goroutine of NewClusterMap *)

\* A snapshot: the map with, as ghosts, the cycle that built each entry and
\* the cycle that built the map
Snapshot(m, c) == [m |-> m, origin |-> [k \in DOMAIN m |-> c], cycle |-> c]

\* What loadClusters returns with a nil error when the result of the query
\* is not a row list: the nil map, which reads as a map with no entry and
\* which no cycle has built (cycle -1)
NilSnapshot == [m |-> EmptyMap, origin |-> EmptyMap, cycle |-> -1]

\* The mutant of Swap that updates the old map in place
SwapMerge(old, updated) ==
    [m |-> PutAll(old.m, updated.m), origin |-> PutAll(old.origin, updated.origin),
     cycle |-> updated.cycle]

\* The mutant of Swap that drops the assignment
SwapKeepOld(old, updated) == old

\* pcm.clusters = updated
Swap(old, updated) == updated

\* The mutant of RefreshAfterLoad without the error check
RefreshAfterLoadUnchecked(err) == "lock"

\* refreshClusters after loadClusters returned: return on an error, else go
\* on to pcm.lock.Lock()
RefreshAfterLoad(err) == IF err THEN "select" ELSE "lock"

\* The mutant of StopCase without the return
StopCaseNoReturn == "select"

\* case <-cm.stop: log and return
StopCase == "exited"

\* The mutant of StopFieldAfterClose that leaves the field alone
StopFieldKept(field) == field

\* StopRefresh after close(pcm.stop): pcm.stop = nil
StopFieldAfterClose(field) == "nil"

\* ghost: refreshClusters has returned, after an error of loadClusters or not
RefreshReturned(err) ==
    [outcome |-> IF err THEN "failed" ELSE "ok",
     first |-> IF lastRefresh.first # "pending" THEN lastRefresh.first
               ELSE IF err THEN "failed" ELSE "ok"]

CurrentSnapshot == [m |-> clusters, origin |-> origin, cycle |-> snapCycle]

\* One attempt of retry.Retry fails.  After LoadRetries failed attempts
\* loadClusters returns (nil, err).
TaskQueryFail ==
    /\ task.pc = "load"
    /\ IF task.attempts + 1 < LoadRetries
       THEN /\ task' = [task EXCEPT !.attempts = @ + 1]
            /\ UNCHANGED lastRefresh
       ELSE /\ task' = [task EXCEPT !.attempts = @ + 1,
                                    !.updated = Snapshot(EmptyMap, 0),
                                    !.err = TRUE,
                                    !.pc = RefreshAfterLoad(TRUE)]
            /\ lastRefresh' = IF RefreshAfterLoad(TRUE) = "select"
                               THEN RefreshReturned(TRUE) ELSE lastRefresh
    /\ lock' = IF task'.pc = "lock" THEN [lock EXCEPT !.pending = TRUE] ELSE lock
    /\ UNCHANGED <<clusters, origin, snapCycle, cycle, readers, pcmStop, stopClosed,
                   fault, stoppers, loadCall>>

\* One attempt succeeds with the rows qr: retry.Retry returns, and its count
\* of the failed attempts ends with it; loadClusters builds the map and
\* refreshClusters calls pcm.lock.Lock().
TaskQueryOk(qr, info) ==
    /\ task.pc = "load"
    /\ task.attempts < LoadRetries
    /\ cycle < MaxCycles
    /\ cycle' = cycle + 1
    /\ task' = [task EXCEPT !.updated = Snapshot(LoadClusters(qr, LocalClusterID, info), cycle + 1),
                            !.attempts = 0,
                            !.pc = RefreshAfterLoad(FALSE)]
    /\ lock' = [lock EXCEPT !.pending = TRUE]
    /\ loadCall' = [done |-> TRUE, qr |-> qr, info |-> info]
    /\ UNCHANGED <<clusters, origin, snapCycle, readers, pcmStop, stopClosed,
                   fault, stoppers, lastRefresh>>

\* One attempt returns no error and a result that is not a row list:
\* loadClusters returns (nil, nil) and refreshClusters calls pcm.lock.Lock()
TaskQueryNotRows ==
    /\ task.pc = "load"
    /\ task.attempts < LoadRetries
    /\ task' = [task EXCEPT !.updated = NilSnapshot,
                            !.attempts = 0,
                            !.pc = RefreshAfterLoad(FALSE)]
    /\ lock' = [lock EXCEPT !.pending = TRUE]
    /\ loadCall' = [done |-> FALSE]
    /\ UNCHANGED <<clusters, origin, snapCycle, cycle, readers, pcmStop, stopClosed,
                   fault, stoppers, lastRefresh>>

\* pcm.lock.Lock() returns: no reader holds the lock
TaskLock ==
    /\ task.pc = "lock"
    /\ lock.readers = 0
    /\ lock' = [lock EXCEPT !.pending = FALSE, !.writer = TRUE]
    /\ task' = [task EXCEPT !.pc = "swap"]
    /\ UNCHANGED <<clusters, origin, snapCycle, cycle, readers, pcmStop, stopClosed,
                   fault, stoppers, lastRefresh, loadCall>>

\* pcm.clusters = updated
TaskSwap ==
    /\ task.pc = "swap"
    /\ LET s == Swap(CurrentSnapshot, task.updated) IN
       /\ clusters' = s.m
       /\ origin' = s.origin
       /\ snapCycle' = s.cycle
    /\ task' = [task EXCEPT !.pc = "unlock"]
    /\ UNCHANGED <<cycle, lock, readers, pcmStop, stopClosed, fault, stoppers, lastRefresh, loadCall>>

\* pcm.lock.Unlock(); refreshClusters returns
TaskUnlock ==
    /\ task.pc = "unlock"
    /\ lock' = [lock EXCEPT !.writer = FALSE]
    /\ task' = [task EXCEPT !.pc = "select", !.updated = Snapshot(EmptyMap, 0)]
    /\ lastRefresh' = RefreshReturned(task.err)
    /\ UNCHANGED <<clusters, origin, snapCycle, cycle, readers, pcmStop, stopClosed,
                   fault, stoppers, loadCall>>

\* The select statement is entered: its channel operand cm.stop is
\* evaluated, once.  The goroutine reads the field without synchronisation
\* while StopRefresh writes it: after the write the read yields the channel
\* or nil.
TaskSelect ==
    /\ task.pc = "select"
    /\ \E ch \in { "chan", pcmStop } :
          task' = [task EXCEPT !.pc = "blocked", !.selChan = ch]
    /\ UNCHANGED <<clusters, origin, snapCycle, cycle, lock, readers, pcmStop, stopClosed,
                   fault, stoppers, lastRefresh, loadCall>>

\* case <-ticker.C: cm.refreshClusters()
TaskTick ==
    /\ task.pc = "blocked"
    /\ task' = [task EXCEPT !.pc = "load", !.attempts = 0, !.err = FALSE,
                            !.updated = Snapshot(EmptyMap, 0)]
    /\ UNCHANGED <<clusters, origin, snapCycle, cycle, lock, readers, pcmStop, stopClosed,
                   fault, stoppers, lastRefresh, loadCall>>

\* case <-cm.stop: a receive from a closed channel is ready, a receive from
\* a nil channel never is
TaskStop ==
    /\ task.pc = "blocked"
    /\ task.selChan = "chan"
    /\ stopClosed > 0
    /\ task' = [task EXCEPT !.pc = StopCase, !.stopped = TRUE]
    /\ UNCHANGED <<clusters, origin, snapCycle, cycle, lock, readers, pcmStop, stopClosed,
                   fault, stoppers, lastRefresh, loadCall>>

TaskStep ==
    \/ TaskQueryFail
    \/ \E qr \in Responses, info \in LocalInfos : TaskQueryOk(qr, info)
    \/ TaskQueryNotRows
    \/ TaskLock
    \/ TaskSwap
    \/ TaskUnlock
    \/ TaskSelect
    \/ TaskTick
    \/ TaskStop

----------------------------------------------------------------------------
(* The read operations as their callers run them *)

IdleReader ==
    [pc |-> "idle", call |-> [op |-> "AsMap", arg |-> Empty],
     result |-> EmptyMap, seen |-> {}, mapCycle |-> 0]

\* pcm.lock.RLock() returns: no writer holds the lock and none waits for it
ReadLock(r, call) ==
    /\ readers[r].pc = "idle"
    /\ ~lock.writer /\ ~lock.pending
    /\ lock' = [lock EXCEPT !.readers = @ + 1]
    /\ readers' = [readers EXCEPT ![r] = [@ EXCEPT !.pc = "rlocked", !.call = call]]
    /\ UNCHANGED <<clusters, origin, snapCycle, cycle, task, pcmStop, stopClosed,
                   fault, stoppers, lastRefresh, loadCall>>

\* The body of the operation, under the read lock
ReadBody(r) ==
    /\ readers[r].pc = "rlocked"
    /\ LET call == readers[r].call
           keys == ReadKeys(call.op, call.arg, clusters)
       IN  readers' = [readers EXCEPT ![r] =
               [@ EXCEPT !.pc = "done",
                         !.result = ReadResult(call.op, call.arg, clusters),
                         !.seen = { origin[k] : k \in keys },
                         !.mapCycle = snapCycle]]
    /\ UNCHANGED <<clusters, origin, snapCycle, cycle, task, lock, pcmStop, stopClosed,
                   fault, stoppers, lastRefresh, loadCall>>

\* The deferred pcm.lock.RUnlock(); the operation returns
ReadUnlock(r) ==
    /\ readers[r].pc = "done"
    /\ lock' = [lock EXCEPT !.readers = @ - 1]
    /\ readers' = [readers EXCEPT ![r] = IdleReader]
    /\ UNCHANGED <<clusters, origin, snapCycle, cycle, task, pcmStop, stopClosed,
                   fault, stoppers, lastRefresh, loadCall>>

ReaderStep(R) ==
    \E r \in R :
        \/ \E call \in ReadCalls : ReadLock(r, call)
        \/ ReadBody(r)
        \/ ReadUnlock(r)

----------------------------------------------------------------------------
(* StopRefresh *)

\* StopRefresh is called, one call at a time
StopCall(s) ==
    /\ \A t \in Stoppers : stoppers.pc[t] = "idle"
    /\ stoppers.calls < MaxStopCalls
    /\ stoppers' = [stoppers EXCEPT !.pc[s] = "check", !.calls = @ + 1]
    /\ UNCHANGED <<clusters, origin, snapCycle, cycle, task, lock, readers, pcmStop,
                   stopClosed, fault, lastRefresh, loadCall>>

\* if pcm.stop != nil
StopCheck(s) ==
    /\ stoppers.pc[s] = "check"
    /\ IF pcmStop # "nil"
       THEN stoppers' = [stoppers EXCEPT !.pc[s] = "close"]
       ELSE stoppers' = [stoppers EXCEPT !.pc[s] = "idle", !.returned = @ + 1]
    /\ UNCHANGED <<clusters, origin, snapCycle, cycle, task, lock, readers, pcmStop,
                   stopClosed, fault, lastRefresh, loadCall>>

\* close(pcm.stop): closing a closed channel panics
StopClose(s) ==
    /\ stoppers.pc[s] = "close"
    /\ stopClosed' = stopClosed + 1
    /\ fault' = (fault \/ stopClosed > 0)
    /\ stoppers' = [stoppers EXCEPT !.pc[s] = "clear"]
    /\ UNCHANGED <<clusters, origin, snapCycle, cycle, task, lock, readers, pcmStop,
                   lastRefresh, loadCall>>

\* pcm.stop = nil; StopRefresh returns
StopClear(s) ==
    /\ stoppers.pc[s] = "clear"
    /\ pcmStop' = StopFieldAfterClose(pcmStop)
    /\ stoppers' = [stoppers EXCEPT !.pc[s] = "idle", !.returned = @ + 1]
    /\ UNCHANGED <<clusters, origin, snapCycle, cycle, task, lock, readers, stopClosed,
                   fault, lastRefresh, loadCall>>

StopperStep ==
    \E s \in Stoppers : StopCall(s) \/ StopCheck(s) \/ StopClose(s) \/ StopClear(s)

\* StopRefresh is called by a thread while other threads may be inside it
StopCallConcurrent(s) ==
    /\ stoppers.pc[s] = "idle"
    /\ stoppers.calls < MaxStopCalls
    /\ stoppers' = [stoppers EXCEPT !.pc[s] = "check", !.calls = @ + 1]
    /\ UNCHANGED <<clusters, origin, snapCycle, cycle, task, lock, readers, pcmStop,
                   stopClosed, fault, lastRefresh, loadCall>>

ConcurrentStopperStep ==
    \E s \in Stoppers :
        StopCallConcurrent(s) \/ StopCheck(s) \/ StopClose(s) \/ StopClear(s)

----------------------------------------------------------------------------
(* CustomProvider *)

\* The configurations: rates and the labels that mark spot and GPU nodes
DefaultConfig ==
    [CPU |-> "0.05", RAM |-> "0.01", GPU |-> "0.90", SpotCPU |-> "0.015", SpotRAM |-> "0.002",
     SpotLabel |-> "lifecycle", SpotLabelValue |-> "spot",
     GpuLabel |-> "accelerator", GpuLabelValue |-> "true"]

Configs ==
    { DefaultConfig,
      [CPU |-> "0.07", RAM |-> "0.02", GPU |-> "1.10", SpotCPU |-> "0.020", SpotRAM |-> "0.004",
       SpotLabel |-> "", SpotLabelValue |-> "",
       GpuLabel |-> "", GpuLabelValue |-> ""] }

\* The label maps of the nodes: no label, a spot node, a GPU node, a spot
\* node with a GPU, and a node whose lifecycle label is empty
NodeLabels ==
    { EmptyMap,
      [name \in { "lifecycle" } |-> "spot"],
      [name \in { "accelerator" } |-> "true"],
      [name \in { "lifecycle", "accelerator" } |-> IF name = "lifecycle" THEN "spot" ELSE "true"],
      [name \in { "lifecycle", "accelerator" } |-> IF name = "lifecycle" THEN "" ELSE "true"] }

NodePrice(cpu, ram, gpu) == [CPU |-> cpu, RAM |-> ram, GPU |-> gpu]

TagDefault == << "default" >>
TagSpot    == << "default", "spot" >>
TagGpu     == << "default", "gpu" >>

\* The bytes of the strings that are label names and label values
Bytes(s) ==
    CASE s = "" -> << >>
      [] s = "lifecycle" -> << "l", "i", "f", "e", "c", "y", "c", "l", "e" >>
      [] s = "spot" -> << "s", "p", "o", "t" >>
      [] s = "accelerator" -> << "a", "c", "c", "e", "l", "e", "r", "a", "t", "o", "r" >>
      [] s = "true" -> << "t", "r", "u", "e" >>

\* A string as the machine holds it, in two words: a pointer to the bytes
\* of data, which is nil for "", and a length
Str(s) == [data |-> s, len |-> Len(Bytes(s))]

\* What a read of a string can give while an assignment changes it from
\* old to new, the two being unordered: each of the two words is the one
\* of old or the one of new
Torn(old, new) == { [data |-> d, len |-> Len(Bytes(l))] : d, l \in { old, new } }

\* The bytes of a string are within its data
InBounds(x) == x.len <= Len(Bytes(x.data))

\* A string that is a nil pointer with a length: reading its bytes faults
NilData(x) == x.data = "" /\ x.len > 0

\* x == s: the lengths are compared, then the bytes.  Bytes beyond the
\* data are taken not to spell a label
SameString(x, s) == InBounds(x) /\ SubSeq(Bytes(x.data), 1, x.len) = Bytes(s)

\* x == s reads the bytes of x, for s not empty
EqualReads(x, s) == s # "" /\ x.len = Len(Bytes(s))

\* labels[x] reads the bytes of x: a map with no entry reads nothing of the
\* key; a map with entries hashes the key, or, being small, compares it
\* with its keys of the same length
IndexReads(labels, x, hashed) ==
    /\ DOMAIN labels # {}
    /\ hashed \/ \E name \in DOMAIN labels : EqualReads(x, name)

\* labels[x], the empty string for a missing key
LabelValue(labels, x) ==
    IF \E name \in DOMAIN labels : SameString(x, name)
    THEN labels[CHOOSE name \in DOMAIN labels : SameString(x, name)]
    ELSE ""

\* GetKey: the key of the four label fields as they were read and the
\* labels of the node
GetKey(fields, labels) ==
    [SpotLabel |-> fields[1], SpotLabelValue |-> fields[2],
     GPULabel |-> fields[3], GPULabelValue |-> fields[4],
     Labels |-> labels]

\* customProviderKey.GPUType, and whether it faults
GPUType(cpk) == LabelValue(cpk.Labels, cpk.GPULabel)
GPUTypeFaults(cpk, hashed) ==
    NilData(cpk.GPULabel) /\ IndexReads(cpk.Labels, cpk.GPULabel, hashed)

\* customProviderKey.Features, and whether it faults
Features(cpk) ==
    IF LabelValue(cpk.Labels, cpk.SpotLabel) # ""
       /\ SameString(cpk.SpotLabelValue, LabelValue(cpk.Labels, cpk.SpotLabel))
    THEN TagSpot
    ELSE TagDefault
FeaturesFaults(cpk, hashed) ==
    \/ NilData(cpk.SpotLabel) /\ IndexReads(cpk.Labels, cpk.SpotLabel, hashed)
    \/ NilData(cpk.SpotLabelValue)
          /\ EqualReads(cpk.SpotLabelValue, LabelValue(cpk.Labels, cpk.SpotLabel))

\* NodePricing: the tag looked up, k, after the fallback and the suffix
NodePricingTag(table, cpk) ==
    LET k == IF Features(cpk) \in DOMAIN table THEN Features(cpk) ELSE TagDefault IN
    IF GPUType(cpk) # "" THEN Append(k, "gpu") ELSE k

\* NodePricing: the Node returned, or a fault: of reading the bytes of a
\* key field that is a nil pointer with a length, or of reading a field
\* through the nil pointer that cp.Pricing[k] is for a missing k
NodePricing(table, cpk, hashed) ==
    LET k == NodePricingTag(table, cpk) IN
    IF FeaturesFaults(cpk, hashed) \/ GPUTypeFaults(cpk, hashed)
    THEN [fault |-> TRUE, tag |-> << >>, node |-> Nil]
    ELSE IF k \in DOMAIN table
    THEN [fault |-> FALSE, tag |-> k,
          node |-> [VCPUCost |-> table[k].CPU, RAMCost |-> table[k].RAM,
                    GPUCost |-> table[k].GPU,
                    GPU |-> IF GPUType(cpk) # "" THEN "1" ELSE ""]]
    ELSE [fault |-> TRUE, tag |-> k, node |-> Nil]

\* DownloadPricingData with a configuration p: the three entries
RebuildSpotFromBase(table, p) ==
    Put(Put(Put(table, TagDefault, NodePrice(p.CPU, p.RAM, "")),
            TagSpot, NodePrice(p.CPU, p.RAM, "")),
        TagGpu, NodePrice(p.CPU, p.RAM, p.GPU))
Rebuild(table, p) ==
    Put(Put(Put(table, TagDefault, NodePrice(p.CPU, p.RAM, "")),
            TagSpot, NodePrice(p.SpotCPU, p.SpotRAM, "")),
        TagGpu, NodePrice(p.CPU, p.RAM, p.GPU))

NoNodeCall == [phase |-> "none"]

NoUpdateCall == [phase |-> "none"]

NoRebuild == [pc |-> "idle"]

NoAllCall == [phase |-> "none"]

\* A nil map dereferenced in NodePricing, or a map read while it is written,
\* has ended the process
Running == nodeCall.phase # "fault" /\ allCall.phase # "fatal"

\* DownloadPricingData: the label fields it caches from a configuration p
CachedLabels(p) ==
    [SpotLabel |-> p.SpotLabel, SpotLabelValue |-> p.SpotLabelValue,
     GPULabel |-> p.GpuLabel, GPULabelValue |-> p.GpuLabelValue]

\* DownloadPricingData: the four label fields, in the order of their assignments
LabelFields == << "SpotLabel", "SpotLabelValue", "GPULabel", "GPULabelValue" >>

\* DownloadPricingData: the tags of the three assignments, in their order
RebuildTags == << TagDefault, TagSpot, TagGpu >>

\* The owner of the configuration changes it
ConfigChange(c) ==
    /\ Running
    /\ c # config
    /\ config' = c
    /\ UNCHANGED <<regVars, nameVars, copyVars, configErr, pricing, cpLabels, nodeCall,
                   updateCall, lbCall, tableVars>>

\* The configuration becomes impossible to load, or possible again
ConfigAvailability(err) ==
    /\ Running
    /\ err # configErr
    /\ configErr' = err
    /\ UNCHANGED <<regVars, nameVars, copyVars, config, pricing, cpLabels, nodeCall,
                   updateCall, lbCall, tableVars>>

\* The letters of ASCII
LowerLetters ==
    << "a", "b", "c", "d", "e", "f", "g", "h", "i", "j", "k", "l", "m",
       "n", "o", "p", "q", "r", "s", "t", "u", "v", "w", "x", "y", "z" >>
UpperLetters ==
    << "A", "B", "C", "D", "E", "F", "G", "H", "I", "J", "K", "L", "M",
       "N", "O", "P", "Q", "R", "S", "T", "U", "V", "W", "X", "Y", "Z" >>

Digits == << "0", "1", "2", "3", "4", "5", "6", "7", "8", "9" >>
IsDigit(ch) == \E d \in 1..10 : Digits[d] = ch
DigitValue(ch) == (CHOOSE d \in 1..10 : Digits[d] = ch) - 1

\* The lower-case letter of an ASCII letter
ToLower(ch) ==
    IF \E i \in 1..26 : UpperLetters[i] = ch
    THEN LowerLetters[CHOOSE i \in 1..26 : UpperLetters[i] = ch]
    ELSE ch

\* A key of the JSON object is a string of runes, the code points of
\* Unicode, which are numbers.  The rune of a letter, a digit or another
\* character of ASCII that the keys of the model are written with:
RuneOf(ch) ==
    CASE \E i \in 1..26 : LowerLetters[i] = ch -> 96 + (CHOOSE i \in 1..26 : LowerLetters[i] = ch)
      [] \E i \in 1..26 : UpperLetters[i] = ch -> 64 + (CHOOSE i \in 1..26 : UpperLetters[i] = ch)
      [] IsDigit(ch) -> 48 + DigitValue(ch)
      [] ch = "_" -> 95
Runes(s) == [i \in 1..Len(s) |-> RuneOf(s[i])]

\* unicode.CaseRanges, for the title case: the runes from lo to hi, every
\* one or every second one, have as title case the rune that is delta
\* further; every other rune is its own title case.
\* << lo, hi, every, delta >>
CaseRanges ==
    << << 97, 122, 1, -32 >>, << 181, 181, 1, 743 >>, << 224, 246, 1, -32 >>, << 248, 254, 1, -32 >>,
       << 255, 255, 1, 121 >>, << 257, 303, 2, -1 >>, << 305, 305, 1, -232 >>, << 307, 311, 2, -1 >>,
       << 314, 328, 2, -1 >>, << 331, 375, 2, -1 >>, << 378, 382, 2, -1 >>, << 383, 383, 1, -300 >>,
       << 384, 384, 1, 195 >>, << 387, 389, 2, -1 >>, << 392, 392, 1, -1 >>, << 396, 396, 1, -1 >>,
       << 402, 402, 1, -1 >>, << 405, 405, 1, 97 >>, << 409, 409, 1, -1 >>, << 410, 410, 1, 163 >>,
       << 414, 414, 1, 130 >>, << 417, 421, 2, -1 >>, << 424, 424, 1, -1 >>, << 429, 429, 1, -1 >>,
       << 432, 432, 1, -1 >>, << 436, 438, 2, -1 >>, << 441, 441, 1, -1 >>, << 445, 445, 1, -1 >>,
       << 447, 447, 1, 56 >>, << 452, 452, 1, 1 >>, << 454, 454, 1, -1 >>, << 455, 455, 1, 1 >>,
       << 457, 457, 1, -1 >>, << 458, 458, 1, 1 >>, << 460, 476, 2, -1 >>, << 477, 477, 1, -79 >>,
       << 479, 495, 2, -1 >>, << 497, 497, 1, 1 >>, << 499, 501, 2, -1 >>, << 505, 543, 2, -1 >>,
       << 547, 563, 2, -1 >>, << 572, 572, 1, -1 >>, << 575, 576, 1, 10815 >>, << 578, 578, 1, -1 >>,
       << 583, 591, 2, -1 >>, << 592, 592, 1, 10783 >>, << 593, 593, 1, 10780 >>, << 594, 594, 1, 10782 >>,
       << 595, 595, 1, -210 >>, << 596, 596, 1, -206 >>, << 598, 599, 1, -205 >>, << 601, 601, 1, -202 >>,
       << 603, 603, 1, -203 >>, << 604, 604, 1, 42319 >>, << 608, 608, 1, -205 >>, << 609, 609, 1, 42315 >>,
       << 611, 611, 1, -207 >>, << 613, 613, 1, 42280 >>, << 614, 614, 1, 42308 >>, << 616, 616, 1, -209 >>,
       << 617, 617, 1, -211 >>, << 618, 618, 1, 42308 >>, << 619, 619, 1, 10743 >>, << 620, 620, 1, 42305 >>,
       << 623, 623, 1, -211 >>, << 625, 625, 1, 10749 >>, << 626, 626, 1, -213 >>, << 629, 629, 1, -214 >>,
       << 637, 637, 1, 10727 >>, << 640, 640, 1, -218 >>, << 642, 642, 1, 42307 >>, << 643, 643, 1, -218 >>,
       << 647, 647, 1, 42282 >>, << 648, 648, 1, -218 >>, << 649, 649, 1, -69 >>, << 650, 651, 1, -217 >>,
       << 652, 652, 1, -71 >>, << 658, 658, 1, -219 >>, << 669, 669, 1, 42261 >>, << 670, 670, 1, 42258 >>,
       << 837, 837, 1, 84 >>, << 881, 883, 2, -1 >>, << 887, 887, 1, -1 >>, << 891, 893, 1, 130 >>,
       << 940, 940, 1, -38 >>, << 941, 943, 1, -37 >>, << 945, 961, 1, -32 >>, << 962, 962, 1, -31 >>,
       << 963, 971, 1, -32 >>, << 972, 972, 1, -64 >>, << 973, 974, 1, -63 >>, << 976, 976, 1, -62 >>,
       << 977, 977, 1, -57 >>, << 981, 981, 1, -47 >>, << 982, 982, 1, -54 >>, << 983, 983, 1, -8 >>,
       << 985, 1007, 2, -1 >>, << 1008, 1008, 1, -86 >>, << 1009, 1009, 1, -80 >>, << 1010, 1010, 1, 7 >>,
       << 1011, 1011, 1, -116 >>, << 1013, 1013, 1, -96 >>, << 1016, 1016, 1, -1 >>, << 1019, 1019, 1, -1 >>,
       << 1072, 1103, 1, -32 >>, << 1104, 1119, 1, -80 >>, << 1121, 1153, 2, -1 >>, << 1163, 1215, 2, -1 >>,
       << 1218, 1230, 2, -1 >>, << 1231, 1231, 1, -15 >>, << 1233, 1327, 2, -1 >>, << 1377, 1414, 1, -48 >>,
       << 5112, 5117, 1, -8 >>, << 7296, 7296, 1, -6254 >>, << 7297, 7297, 1, -6253 >>, << 7298, 7298, 1, -6244 >>,
       << 7299, 7300, 1, -6242 >>, << 7301, 7301, 1, -6243 >>, << 7302, 7302, 1, -6236 >>, << 7303, 7303, 1, -6181 >>,
       << 7304, 7304, 1, 35266 >>, << 7545, 7545, 1, 35332 >>, << 7549, 7549, 1, 3814 >>, << 7566, 7566, 1, 35384 >>,
       << 7681, 7829, 2, -1 >>, << 7835, 7835, 1, -59 >>, << 7841, 7935, 2, -1 >>, << 7936, 7943, 1, 8 >>,
       << 7952, 7957, 1, 8 >>, << 7968, 7975, 1, 8 >>, << 7984, 7991, 1, 8 >>, << 8000, 8005, 1, 8 >>,
       << 8017, 8023, 2, 8 >>, << 8032, 8039, 1, 8 >>, << 8048, 8049, 1, 74 >>, << 8050, 8053, 1, 86 >>,
       << 8054, 8055, 1, 100 >>, << 8056, 8057, 1, 128 >>, << 8058, 8059, 1, 112 >>, << 8060, 8061, 1, 126 >>,
       << 8064, 8071, 1, 8 >>, << 8080, 8087, 1, 8 >>, << 8096, 8103, 1, 8 >>, << 8112, 8113, 1, 8 >>,
       << 8115, 8115, 1, 9 >>, << 8126, 8126, 1, -7205 >>, << 8131, 8131, 1, 9 >>, << 8144, 8145, 1, 8 >>,
       << 8160, 8161, 1, 8 >>, << 8165, 8165, 1, 7 >>, << 8179, 8179, 1, 9 >>, << 8526, 8526, 1, -28 >>,
       << 8560, 8575, 1, -16 >>, << 8580, 8580, 1, -1 >>, << 9424, 9449, 1, -26 >>, << 11312, 11359, 1, -48 >>,
       << 11361, 11361, 1, -1 >>, << 11365, 11365, 1, -10795 >>, << 11366, 11366, 1, -10792 >>, << 11368, 11372, 2, -1 >>,
       << 11379, 11379, 1, -1 >>, << 11382, 11382, 1, -1 >>, << 11393, 11491, 2, -1 >>, << 11500, 11502, 2, -1 >>,
       << 11507, 11507, 1, -1 >>, << 11520, 11557, 1, -7264 >>, << 11559, 11559, 1, -7264 >>, << 11565, 11565, 1, -7264 >>,
       << 42561, 42605, 2, -1 >>, << 42625, 42651, 2, -1 >>, << 42787, 42799, 2, -1 >>, << 42803, 42863, 2, -1 >>,
       << 42874, 42876, 2, -1 >>, << 42879, 42887, 2, -1 >>, << 42892, 42892, 1, -1 >>, << 42897, 42899, 2, -1 >>,
       << 42900, 42900, 1, 48 >>, << 42903, 42921, 2, -1 >>, << 42933, 42947, 2, -1 >>, << 42952, 42954, 2, -1 >>,
       << 42961, 42961, 1, -1 >>, << 42967, 42969, 2, -1 >>, << 42998, 42998, 1, -1 >>, << 43859, 43859, 1, -928 >>,
       << 43888, 43967, 1, -38864 >>, << 65345, 65370, 1, -32 >>, << 66600, 66639, 1, -40 >>, << 66776, 66811, 1, -40 >>,
       << 66967, 66977, 1, -39 >>, << 66979, 66993, 1, -39 >>, << 66995, 67001, 1, -39 >>, << 67003, 67004, 1, -39 >>,
       << 68800, 68850, 1, -64 >>, << 71872, 71903, 1, -32 >>, << 93792, 93823, 1, -32 >>, << 125218, 125251, 1, -34 >> >>

\* unicode.ToTitle
ToTitle(r) ==
    IF \E i \in 1..Len(CaseRanges) :
          /\ CaseRanges[i][1] <= r
          /\ r <= CaseRanges[i][2]
          /\ (r - CaseRanges[i][1]) % CaseRanges[i][3] = 0
    THEN r + CaseRanges[CHOOSE i \in 1..Len(CaseRanges) :
                            /\ CaseRanges[i][1] <= r
                            /\ r <= CaseRanges[i][2]
                            /\ (r - CaseRanges[i][1]) % CaseRanges[i][3] = 0][4]
    ELSE r

\* unicode.IsSpace above ASCII
Spaces == { 133, 160, 5760, 8232, 8233, 8239, 8287, 12288 } \cup (8192..8202)

\* strings.isSeparator: in ASCII, letters, digits and the underscore are
\* not separators and every other character is; above ASCII, letters and
\* digits are not, and of the other runes only the spaces are
IsSeparator(r) ==
    IF r <= 127
    THEN ~(r \in 48..57 \/ r \in 97..122 \/ r \in 65..90 \/ r = 95)
    ELSE r \in Spaces

\* strings.Title: the first letter of every word in title case; a word
\* starts at the start of the string and after a separator
Title(k) ==
    [i \in 1..Len(k) |-> IF i = 1 \/ IsSeparator(k[i - 1]) THEN ToTitle(k[i]) ELSE k[i]]

\* The fields of CustomPricing, by name
FieldNames ==
    { << Runes(<< "C", "P", "U" >>), "CPU" >>,
      << Runes(<< "R", "A", "M" >>), "RAM" >>,
      << Runes(<< "G", "P", "U" >>), "GPU" >>,
      << Runes(<< "S", "p", "o", "t", "C", "P", "U" >>), "SpotCPU" >>,
      << Runes(<< "S", "p", "o", "t", "R", "A", "M" >>), "SpotRAM" >>,
      << Runes(<< "S", "p", "o", "t", "L", "a", "b", "e", "l" >>), "SpotLabel" >>,
      << Runes(<< "S", "p", "o", "t", "L", "a", "b", "e", "l", "V", "a", "l", "u", "e" >>), "SpotLabelValue" >>,
      << Runes(<< "G", "p", "u", "L", "a", "b", "e", "l" >>), "GpuLabel" >>,
      << Runes(<< "G", "p", "u", "L", "a", "b", "e", "l", "V", "a", "l", "u", "e" >>), "GpuLabelValue" >> }

\* The fields that hold a rate, and the strings that are numbers
RateFields  == { "CPU", "RAM", "GPU", "SpotCPU", "SpotRAM" }
RateStrings == { "0.05", "0.01", "0.90", "0.015", "0.002", "0.07", "0.02", "1.10",
                 "0.020", "0.004", "0.09" }

\* SetCustomPricingField: the assignment to the field called name, checked;
\* an unknown name and a value that is not valid for the field are errors
SetCustomPricingField(c, name, value) ==
    IF \E f \in FieldNames : f[1] = name
    THEN LET field == (CHOOSE f \in FieldNames : f[1] = name)[2] IN
         IF field \in RateFields /\ value \notin RateStrings
         THEN [err |-> TRUE, c |-> c]
         ELSE [err |-> FALSE, c |-> [c EXCEPT ![field] = value]]
    ELSE [err |-> TRUE, c |-> c]

\* A decoded JSON value: a string, or a value of another type
StringValue(v) == [str |-> TRUE, v |-> v]
OtherValue     == [str |-> FALSE]

\* UpdateConfig, one turn of the loop of the callback: the entry k, v of a
UpdateEntry(c, k, v) ==
    IF v.str
    THEN SetCustomPricingField(c, Title(k), v.v)
    ELSE [err |-> TRUE, c |-> c]

\* UpdateConfig, the callback: the entries of a in the order `order` that
\* the range over the map takes, up to the first error
RECURSIVE UpdateEntries(_, _, _, _)
UpdateEntries(c, a, order, applied) ==
    IF order = << >>
    THEN [err |-> FALSE, c |-> c, applied |-> applied]
    ELSE LET r == UpdateEntry(c, Head(order), a[Head(order)]) IN
         IF r.err
         THEN [err |-> TRUE, c |-> r.c, applied |-> applied]
         ELSE UpdateEntries(r.c, a, Tail(order), applied + 1)

\* cp.Config.Update with the callback of UpdateConfig: the callback is
\* handed the configuration, a *CustomPricing, and assigns to its fields
\* through the pointer.  When it returns at a bad entry, the entries before
\* it have been assigned and nothing of UpdateConfig undoes them.  A
\* configuration that cannot be loaded is an error.
ConfigUpdate(c, loadErr, a, order) ==
    IF loadErr
    THEN [err |-> TRUE, c |-> c, applied |-> 0]
    ELSE UpdateEntries(c, a, order, 0)

\* UpdateConfig: the rebuild is deferred once Update has returned no error
UpdateRebuilds(err) == ~err

\* The orders a range over the keys of a map can take
Orders(a) ==
    { o \in [1..Cardinality(DOMAIN a) -> DOMAIN a] :
        \A i, j \in DOMAIN o : i # j => o[i] # o[j] }

\* The bodies of the update requests: not JSON, or a JSON object
KeyCPU      == Runes(<< "C", "P", "U" >>)
KeyLowerCPU == Runes(<< "c", "P", "U" >>)
KeyCpu      == Runes(<< "c", "p", "u" >>)
KeySpotCPU  == Runes(<< "s", "p", "o", "t", "C", "P", "U" >>)
KeyGpuLabel == Runes(<< "g", "p", "u", "L", "a", "b", "e", "l" >>)
KeyUnknown  == Runes(<< "x" >>)
KeyRAM      == Runes(<< "R", "A", "M" >>)
\* "\u017fpotCPU": it starts with the long s, whose title case is S
KeyLongSpotCPU == << 383 >> \o Runes(<< "p", "o", "t", "C", "P", "U" >>)

UpdateMaps ==
    { EmptyMap,
      Put(EmptyMap, KeyLowerCPU, StringValue("0.09")),
      Put(Put(EmptyMap, KeyCPU, StringValue("0.09")), KeySpotCPU, StringValue("0.02")),
      Put(EmptyMap, KeyGpuLabel, StringValue("lifecycle")),
      Put(Put(EmptyMap, KeyCPU, StringValue("0.09")), KeyUnknown, StringValue("0.01")),
      Put(Put(EmptyMap, KeyCPU, StringValue("0.09")), KeyRAM, OtherValue),
      Put(Put(EmptyMap, KeyCPU, StringValue("0.09")), KeySpotCPU, StringValue("cheap")),
      Put(EmptyMap, KeyCpu, StringValue("0.09")),
      Put(EmptyMap, KeyLongSpotCPU, StringValue("0.02")) }

UpdateBodies == { [json |-> FALSE] } \cup { [json |-> TRUE, a |-> a] : a \in UpdateMaps }

\* A caller calls UpdateConfig with a body
UpdateCall(body) ==
    /\ Running
    /\ updateCall.phase \in { "none", "returned" }
    /\ updateCall' = [phase |-> "called", body |-> body]
    /\ UNCHANGED <<regVars, nameVars, copyVars, config, configErr, pricing, cpLabels,
                   nodeCall, lbCall, tableVars>>

\* UpdateConfig up to its return statement: the body is decoded and the
\* configuration is updated with its entries.  On an error UpdateConfig
\* returns it; otherwise DownloadPricingData is deferred, to run before
\* the return
UpdateApply(order) ==
    /\ Running
    /\ updateCall.phase = "called"
    /\ IF ~updateCall.body.json
       THEN /\ order = << >>
            /\ updateCall' = [phase |-> "returned", err |-> TRUE, applied |-> 0]
            /\ UNCHANGED config
       ELSE /\ order \in Orders(updateCall.body.a)
            /\ LET r == ConfigUpdate(config, configErr, updateCall.body.a, order) IN
               /\ config' = r.c
               /\ updateCall' = [phase |-> IF UpdateRebuilds(r.err) THEN "deferred" ELSE "returned",
                                 err |-> r.err, applied |-> r.applied]
    /\ UNCHANGED <<regVars, nameVars, copyVars, configErr, pricing, cpLabels, nodeCall,
                   lbCall, tableVars>>

\* DownloadPricingData takes the write lock and makes the map when
\* cp.Pricing is nil; it is the call that UpdateConfig deferred, or a call
\* of another thread
DownloadLock(by) ==
    /\ Running
    /\ rebuild.pc = "idle"
    /\ by = "UpdateConfig" => updateCall.phase = "deferred"
    /\ pricing' = [nil |-> FALSE, m |-> pricing.m]
    /\ rebuild' = [pc |-> "fetch", by |-> by]
    /\ UNCHANGED <<regVars, nameVars, copyVars, config, configErr, cpLabels, nodeCall,
                   updateCall, lbCall, allCall>>

\* DownloadPricingData fetches the configuration; on an error it returns it
DownloadFetch(err) ==
    /\ Running
    /\ rebuild.pc = "fetch"
    /\ err = configErr
    /\ rebuild' = IF err
                  THEN [pc |-> "return", by |-> rebuild.by, err |-> TRUE]
                  ELSE [pc |-> "label", by |-> rebuild.by, next |-> 1, p |-> config]
    /\ UNCHANGED <<regVars, nameVars, copyVars, config, configErr, pricing, cpLabels,
                   nodeCall, updateCall, lbCall, allCall>>

\* DownloadPricingData assigns the next of the four label fields
DownloadLabel ==
    /\ Running
    /\ rebuild.pc = "label"
    /\ LET f == LabelFields[rebuild.next] IN
       cpLabels' = [cpLabels EXCEPT ![f] = CachedLabels(rebuild.p)[f]]
    /\ rebuild' = IF rebuild.next = Len(LabelFields)
                  THEN [rebuild EXCEPT !.pc = "assign", !.next = 1]
                  ELSE [rebuild EXCEPT !.next = @ + 1]
    /\ UNCHANGED <<regVars, nameVars, copyVars, config, configErr, pricing, nodeCall,
                   updateCall, lbCall, allCall>>

\* DownloadPricingData assigns the next of its three entries into the map
DownloadAssign ==
    /\ Running
    /\ rebuild.pc = "assign"
    /\ LET k == RebuildTags[rebuild.next] IN
       pricing' = [pricing EXCEPT !.m = Put(pricing.m, k, Rebuild(EmptyMap, rebuild.p)[k])]
    /\ rebuild' = IF rebuild.next = Len(RebuildTags)
                  THEN [pc |-> "return", by |-> rebuild.by, err |-> FALSE, p |-> rebuild.p]
                  ELSE [rebuild EXCEPT !.next = @ + 1]
    /\ UNCHANGED <<regVars, nameVars, copyVars, config, configErr, cpLabels, nodeCall,
                   updateCall, lbCall, allCall>>

\* DownloadPricingData returns and the deferred Unlock runs.  UpdateConfig
\* drops what its deferred call returns and returns the configuration and
\* no error
DownloadUnlock ==
    /\ Running
    /\ rebuild.pc = "return"
    /\ rebuild' = NoRebuild
    /\ updateCall' = IF rebuild.by = "UpdateConfig"
                     THEN [updateCall EXCEPT !.phase = "returned"]
                     ELSE updateCall
    /\ UNCHANGED <<regVars, nameVars, copyVars, config, configErr, pricing, cpLabels,
                   nodeCall, lbCall, allCall>>

\* GetKey reads a label field without a lock: it is what the field holds,
\* or, when DownloadPricingData is at the assignment of that field, what a
\* read that runs while it is assigned can give
ReadValues(f) ==
    IF rebuild.pc = "label" /\ LabelFields[rebuild.next] = f
    THEN Torn(cpLabels[f], CachedLabels(rebuild.p)[f])
    ELSE { Str(cpLabels[f]) }

\* A caller calls GetKey for a node
CallGetKey(labels) ==
    /\ Running
    /\ nodeCall.phase \in { "none", "key", "priced" }
    /\ nodeCall' = [phase |-> "getkey", labels |-> labels, read |-> << >>]
    /\ UNCHANGED <<regVars, nameVars, copyVars, config, configErr, pricing, cpLabels, updateCall, lbCall, tableVars>>

\* GetKey reads the next of the four label fields, and returns the key
\* after the last
ReadLabel ==
    /\ Running
    /\ nodeCall.phase = "getkey"
    /\ \E v \in ReadValues(LabelFields[Len(nodeCall.read) + 1]) :
          nodeCall' = IF Len(nodeCall.read) + 1 = Len(LabelFields)
                      THEN [phase |-> "key",
                            key |-> GetKey(Append(nodeCall.read, v), nodeCall.labels)]
                      ELSE [nodeCall EXCEPT !.read = Append(@, v)]
    /\ UNCHANGED <<regVars, nameVars, copyVars, config, configErr, pricing, cpLabels, updateCall, lbCall, tableVars>>

\* The caller prices the node, under the read lock, which waits for a
\* DownloadPricingData that holds the write lock.  A fault ends the process.
CallNodePricing(hashed) ==
    /\ Running
    /\ rebuild.pc = "idle"
    /\ nodeCall.phase \in { "key", "priced" }
    /\ LET r == NodePricing(pricing.m, nodeCall.key, hashed) IN
       nodeCall' = [phase |-> IF r.fault THEN "fault" ELSE "priced",
                    key |-> nodeCall.key, tag |-> r.tag, node |-> r.node,
                    rebuilt |-> TagDefault \in DOMAIN pricing.m]
    /\ UNCHANGED <<regVars, nameVars, copyVars, config, configErr, pricing, cpLabels, updateCall, lbCall, tableVars>>

----------------------------------------------------------------------------
(* LoadBalancerPricing.  A float64 is NaN, an infinity, or a number with a *)
(* sign, mant * 2^exp: mant is a natural number below 2^53, odd or zero,   *)
(* written as its digits in base 2^15, the least significant first, and    *)
(* exp is 0 for a zero.  What a parse, a product or a sum gives is rounded *)
(* to the nearest float64, a tie to the even one.                          *)

MaxRules  == 7     \* forwarding rules of a load balancer
MaxDataGB == 2     \* ingress data of a load balancer, in GB

\* A natural number of any size is the sequence of its digits in base
\* LimbBase = 2^LimbBits, the least significant first and the last not zero
LimbBits == 15
LimbBase == 32768

\* float64: the bits of a mantissa, the exponent of the smallest number
\* above zero, and the power of two that no number reaches
MantBits   == 53
MinExp     == -1074
MaxExpBits == 1024

\* A decimal number of more digits before the point is beyond the largest
\* float64, about 1.8e308; one of fewer is below half the smallest, about
\* 2.5e-324
MaxDecimalDigits == 310
MinDecimalDigits == -323

\* strconv.readFloat: the exponent stops growing here
ExpCap == 10000

Min(a, b) == IF a < b THEN a ELSE b
Max(a, b) == IF a > b THEN a ELSE b

\* 2^k for k from 0 to LimbBits
Pow2(k) ==
    << 1, 2, 4, 8, 16, 32, 64, 128, 256, 512, 1024, 2048, 4096, 8192, 16384, 32768 >>[k + 1]

\* The number of bits of a natural number below LimbBase, 0 for 0
BitsOf(n) == Cardinality({ k \in 0..(LimbBits - 1) : Pow2(k) <= n })

\* Digit i of a, 0 beyond its last
Limb(a, i) == IF i >= 1 /\ i <= Len(a) THEN a[i] ELSE 0

\* A sequence of digits without the zeros at its top
Norm(a) ==
    SubSeq(a, 1, CHOOSE n \in 0..Len(a) :
                     (n = 0 \/ a[n] # 0) /\ \A i \in (n + 1)..Len(a) : a[i] = 0)

\* The number whose digit i is c[i], for c[i] below LimbBase^2: what is
\* beyond a digit is carried into the next ones
Carried(c) ==
    LET d(i)   == (Limb(c, i) % LimbBase) + (Limb(c, i - 1) \div LimbBase)
        cin(i) == \E j \in 1..(i - 1) :
                      d(j) >= LimbBase /\ \A m \in (j + 1)..(i - 1) : d(m) >= LimbBase - 1
    IN  Norm([i \in 1..(Len(c) + 2) |-> (d(i) + (IF cin(i) THEN 1 ELSE 0)) % LimbBase])

\* a * k + c for k and c below LimbBase
MulAdd(a, k, c) ==
    IF a = << >> \/ k = 0 THEN (IF c = 0 THEN << >> ELSE << c >>)
    ELSE Carried([i \in 1..Len(a) |-> a[i] * k + (IF i = 1 THEN c ELSE 0)])

MulSmall(a, k) == MulAdd(a, k, 0)
AddSmall(a, c) == MulAdd(a, 1, c)

AddBig(a, b) ==
    IF a = << >> THEN b
    ELSE IF b = << >> THEN a
    ELSE Carried([i \in 1..Max(Len(a), Len(b)) |-> Limb(a, i) + Limb(b, i)])

\* a - b for a >= b
SubBig(a, b) ==
    IF b = << >> \/ a = << >> THEN a
    ELSE LET bin(i) == \E j \in 1..(i - 1) :
                           a[j] < Limb(b, j) /\ \A m \in (j + 1)..(i - 1) : a[m] <= Limb(b, m)
         IN  Norm([i \in 1..Len(a) |->
                      (a[i] - Limb(b, i) - (IF bin(i) THEN 1 ELSE 0) + LimbBase) % LimbBase])

\* -1, 0 or 1 as a is below, equal to or above b
CmpBig(a, b) ==
    IF Len(a) # Len(b) THEN (IF Len(a) < Len(b) THEN -1 ELSE 1)
    ELSE IF \A i \in 1..Len(a) : a[i] = b[i] THEN 0
    ELSE LET top == CHOOSE i \in 1..Len(a) :
                        a[i] # b[i] /\ \A j \in (i + 1)..Len(a) : a[j] = b[j]
         IN  IF a[top] < b[top] THEN -1 ELSE 1

\* The number of bits of a
BitLen(a) == IF a = << >> THEN 0 ELSE (Len(a) - 1) * LimbBits + BitsOf(a[Len(a)])

\* a * 2^s
ShiftLeft(a, s) ==
    IF a = << >> \/ s = 0 THEN a
    ELSE [i \in 1..(s \div LimbBits) |-> 0] \o MulSmall(a, Pow2(s % LimbBits))

\* a / 2^s, rounded down
ShiftRight(a, s) ==
    IF s \div LimbBits >= Len(a) THEN << >>
    ELSE LET hi == SubSeq(a, (s \div LimbBits) + 1, Len(a))
             r  == s % LimbBits
         IN  Norm([i \in 1..Len(hi) |->
                      (hi[i] \div Pow2(r))
                         + (IF i < Len(hi) THEN (hi[i + 1] % Pow2(r)) * Pow2(LimbBits - r) ELSE 0)])

\* Bit i of a, bit 0 being the lowest
TestBit(a, i) ==
    (i \div LimbBits) + 1 <= Len(a) /\ (a[(i \div LimbBits) + 1] \div Pow2(i % LimbBits)) % 2 = 1

\* The s lowest bits of a are zeros
LowZero(a, s) == \A i \in 0..(Min(s, BitLen(a)) - 1) : ~TestBit(a, i)

\* The number of zero bits at the bottom of a, which is not zero
TrailingZeros(a) ==
    LET low == CHOOSE i \in 1..Len(a) : a[i] # 0 /\ \A j \in 1..(i - 1) : a[j] = 0
    IN  (low - 1) * LimbBits + Cardinality({ k \in 1..(LimbBits - 1) : a[low] % Pow2(k) = 0 })

\* a * b: the sum of a times the digits lo to hi of b, each at its place
RECURSIVE MulRange(_, _, _, _)
MulRange(a, b, lo, hi) ==
    IF lo = hi THEN ShiftLeft(MulSmall(a, b[lo]), LimbBits * (lo - 1))
    ELSE AddBig(MulRange(a, b, lo, (lo + hi) \div 2), MulRange(a, b, (lo + hi) \div 2 + 1, hi))

MulBig(a, b) == IF a = << >> \/ b = << >> THEN << >> ELSE MulRange(a, b, 1, Len(b))

\* 5^k
RECURSIVE Pow5Big(_)
Pow5Big(k) ==
    IF k <= 0 THEN << 1 >>
    ELSE IF k % 2 = 1 THEN MulSmall(MulBig(Pow5Big(k \div 2), Pow5Big(k \div 2)), 5)
    ELSE MulBig(Pow5Big(k \div 2), Pow5Big(k \div 2))

\* 10^k
Pow10Big(k) == ShiftLeft(Pow5Big(k), k)

\* One step of the division by d: the hexadecimal digit i of the quotient,
\* from what is left to divide, qr.r, and the quotient so far, qr.q
DivStep(qr, d, i) ==
    LET di    == ShiftLeft(d, 4 * i)
        digit == Cardinality({ m \in 1..15 : CmpBig(qr.r, MulSmall(di, m)) >= 0 })
    IN  [q |-> MulAdd(qr.q, 16, digit), r |-> SubBig(qr.r, MulSmall(di, digit))]

\* The quotient and the remainder of qr.r by d, for qr.r below d * 16^(i + 1)
RECURSIVE DivDigits(_, _, _)
DivDigits(qr, d, i) ==
    IF i < 0 THEN qr
    ELSE IF qr.r = << >> THEN [q |-> ShiftLeft(qr.q, 4 * (i + 1)), r |-> qr.r]
    ELSE DivDigits(DivStep(qr, d, i), d, i - 1)

NaN == [kind |-> "nan"]
Inf(neg) == [kind |-> "inf", neg |-> neg]
Zero(neg) == [kind |-> "num", neg |-> neg, mant |-> << >>, exp |-> 0]

\* mant * 2^exp with the zero bits at the bottom of mant moved into exp; at
\* 2^MaxExpBits and beyond it is an infinity
Float(neg, mant, exp) ==
    IF mant = << >> THEN Zero(neg)
    ELSE IF BitLen(mant) + exp > MaxExpBits THEN Inf(neg)
    ELSE [kind |-> "num", neg |-> neg, mant |-> ShiftRight(mant, TrailingZeros(mant)),
          exp |-> exp + TrailingZeros(mant)]

\* q without its t lowest bits, rounded to the nearest, a tie to even;
\* sticky says that something above zero lies below the lowest bit of q
RoundBits(q, sticky, t) ==
    IF TestBit(q, t - 1) /\ (sticky \/ ~LowZero(q, t - 1) \/ TestBit(q, t))
    THEN AddSmall(ShiftRight(q, t), 1)
    ELSE ShiftRight(q, t)

\* The exponent of the lowest bit that a float64 of the size of q * 2^exp has
Ulp(q, exp) == Max(BitLen(q) + exp - MantBits, MinExp)

\* The float64 nearest to (q + f) * 2^exp, where 0 <= f < 1 and sticky says
\* that f is not 0; with f not 0, q has more than MantBits bits
Round(neg, q, sticky, exp) ==
    IF q = << >> THEN Zero(neg)
    ELSE IF Ulp(q, exp) <= exp THEN Float(neg, q, exp)
    ELSE Float(neg, RoundBits(q, sticky, Ulp(q, exp) - exp), Ulp(q, exp))

\* The hexadecimal digits of a quotient of MantBits + 5 bits
QuotientDigits == 15

\* The float64 nearest to n / d * 2^exp, for d above zero: the quotient is
\* computed to MantBits + 4 or MantBits + 5 bits
Ratio(neg, n, d, exp) ==
    IF n = << >> THEN Zero(neg)
    ELSE IF d = << 1 >> THEN Round(neg, n, FALSE, exp)
    ELSE LET s  == MantBits + 4 - BitLen(n) + BitLen(d)
             qr == DivDigits([q |-> << >>, r |-> IF s >= 0 THEN ShiftLeft(n, s) ELSE n],
                             IF s >= 0 THEN d ELSE ShiftLeft(d, 0 - s), QuotientDigits - 1)
         IN  Round(neg, qr.q, qr.r # << >>, exp - s)

\* The product of a float64 and a small natural number
Mul(a, n) ==
    CASE a.kind = "nan" -> NaN
      [] a.kind = "inf" -> IF n = 0 THEN NaN ELSE a
      [] OTHER          -> Round(a.neg, MulSmall(a.mant, n), FALSE, a.exp)

\* The sum of two numbers that are not zero: of x * 2^e and y * 2^e
AddAligned(a, b, x, y, e) ==
    IF a.neg = b.neg THEN Round(a.neg, AddBig(x, y), FALSE, e)
    ELSE IF CmpBig(x, y) = 0 THEN Zero(FALSE)
    ELSE IF CmpBig(x, y) > 0 THEN Round(a.neg, SubBig(x, y), FALSE, e)
    ELSE Round(b.neg, SubBig(y, x), FALSE, e)

\* The number of bits that a number is above 1: 2^(Top(a) - 1) <= a < 2^Top(a)
Top(a) == BitLen(a.mant) + a.exp

\* The sum of two float64; a number that is below a quarter of the lowest
\* bit of the other does not change it
Add(a, b) ==
    CASE a.kind = "nan" \/ b.kind = "nan" -> NaN
      [] a.kind = "inf" /\ b.kind = "inf" -> IF a.neg = b.neg THEN a ELSE NaN
      [] a.kind = "inf" -> a
      [] b.kind = "inf" -> b
      [] OTHER ->
           IF a.mant = << >> /\ b.mant = << >> THEN Zero(a.neg /\ b.neg)
           ELSE IF a.mant = << >> THEN b
           ELSE IF b.mant = << >> \/ Top(a) - Top(b) > MantBits + 4 THEN a
           ELSE IF Top(b) - Top(a) > MantBits + 4 THEN b
           ELSE AddAligned(a, b, ShiftLeft(a.mant, a.exp - Min(a.exp, b.exp)),
                           ShiftLeft(b.mant, b.exp - Min(a.exp, b.exp)), Min(a.exp, b.exp))

\* a == b of two float64: NaN equals nothing, the two zeros are equal
Equal(a, b) ==
    /\ a.kind # "nan"
    /\ b.kind # "nan"
    /\ a = b \/ (a.kind = "num" /\ b.kind = "num" /\ a.mant = << >> /\ b.mant = << >>)

\* The number a string of digits writes: what its first half writes, times
\* 10 to the number of the other digits, plus what they write
RECURSIVE DigitsValue(_)
DigitsValue(s) ==
    IF Len(s) = 0 THEN << >>
    ELSE IF Len(s) = 1 THEN MulAdd(<< >>, 0, DigitValue(s[1]))
    ELSE AddBig(MulBig(DigitsValue(SubSeq(s, 1, Len(s) \div 2)), Pow10Big(Len(s) - Len(s) \div 2)),
                DigitsValue(SubSeq(s, Len(s) \div 2 + 1, Len(s))))

HexDigits ==
    << "0", "1", "2", "3", "4", "5", "6", "7", "8", "9", "a", "b", "c", "d", "e", "f" >>
IsHexDigit(ch) == \E d \in 1..16 : HexDigits[d] = ToLower(ch)
HexDigitValue(ch) == (CHOOSE d \in 1..16 : HexDigits[d] = ToLower(ch)) - 1

\* The number a string of hexadecimal digits writes
RECURSIVE HexValue(_)
HexValue(s) ==
    IF Len(s) = 0 THEN << >>
    ELSE IF Len(s) = 1 THEN MulAdd(<< >>, 0, HexDigitValue(s[1]))
    ELSE AddBig(ShiftLeft(HexValue(SubSeq(s, 1, Len(s) \div 2)), 4 * (Len(s) - Len(s) \div 2)),
                HexValue(SubSeq(s, Len(s) \div 2 + 1, Len(s))))

\* A string in lower case
LowerString(s) == [i \in 1..Len(s) |-> ToLower(s[i])]

\* A string without the zeros it starts with
StripLeadingZeros(s) ==
    SubSeq(s, 1 + Cardinality({ k \in 1..Len(s) : \A i \in 1..k : s[i] = "0" }), Len(s))

\* strconv.special: an infinity, with or without a sign, or NaN, in any case
Special(s) ==
    LET signed == s # << >> /\ s[1] \in { "+", "-" }
        rest   == LowerString(IF signed THEN Tail(s) ELSE s)
    IN  IF rest \in { << "i", "n", "f" >>, << "i", "n", "f", "i", "n", "i", "t", "y" >> }
        THEN [ok |-> TRUE, val |-> Inf(signed /\ s[1] = "-")]
        ELSE IF ~signed /\ rest = << "n", "a", "n" >>
             THEN [ok |-> TRUE, val |-> NaN]
             ELSE [ok |-> FALSE, val |-> Zero(FALSE)]

\* strconv.readFloat, the loop over the mantissa: the index after the digits,
\* underscores and the one point that the mantissa is made of, from index i
MantissaChar(t, j, i, hex) ==
    \/ t[j] = "_"
    \/ IsDigit(t[j])
    \/ hex /\ IsHexDigit(t[j])
    \/ t[j] = "." /\ \A m \in i..(j - 1) : t[m] # "."
MantissaEnd(t, i, hex) ==
    i + Cardinality({ k \in i..Len(t) : \A j \in i..k : MantissaChar(t, j, i, hex) })

\* strconv.readFloat, the loop over the exponent: the index after its digits
\* and underscores
ExponentEnd(t, i) ==
    i + Cardinality({ k \in i..Len(t) : \A j \in i..k : IsDigit(t[j]) \/ t[j] = "_" })

\* strconv.readFloat: the exponent that digits write, which stops growing
\* once it is ExpCap or more
RECURSIVE ExponentValue(_, _)
ExponentValue(ds, e) ==
    IF ds = << >> \/ e >= ExpCap THEN e
    ELSE ExponentValue(Tail(ds), 10 * e + DigitValue(Head(ds)))

\* strconv.underscoreOK on a string without its sign: an underscore is
\* between two digits, or between the base prefix and a digit
UnderscoreOK(t) ==
    LET prefix == Len(t) >= 2 /\ t[1] = "0" /\ ToLower(t[2]) \in { "b", "o", "x" }
        hex    == prefix /\ ToLower(t[2]) = "x"
        first  == IF prefix THEN 3 ELSE 1
        IsD(c) == IsDigit(c) \/ (hex /\ IsHexDigit(c))
    IN  \A i \in first..Len(t) :
            t[i] = "_" =>
                /\ (i > first /\ IsD(t[i - 1])) \/ (prefix /\ i = first)
                /\ i < Len(t)
                /\ IsD(t[i + 1])

\* strconv.readFloat: the digits of a mantissa, and how many of them follow
\* the point
MantissaDigits(mant, hex) ==
    SelectSeq(mant, LAMBDA c : IsDigit(c) \/ (hex /\ IsHexDigit(c)))
FractionDigits(mant, hex) ==
    LET dots == { i \in 1..Len(mant) : mant[i] = "." } IN
    IF dots = {} THEN 0
    ELSE Len(MantissaDigits(SubSeq(mant, (CHOOSE i \in dots : TRUE) + 1, Len(mant)), hex))

\* strconv.readFloat: the exponent that starts at index i of t after the
\* letter expChar, if there is one: a sign, digits and underscores
ReadExponent(t, i, expChar) ==
    IF i > Len(t) \/ ToLower(t[i]) # expChar
    THEN [has |-> FALSE, ok |-> TRUE, val |-> 0, end |-> i]
    ELSE LET esigned == i + 1 <= Len(t) /\ t[i + 1] \in { "+", "-" }
             estart  == IF esigned THEN i + 2 ELSE i + 1
         IN  IF estart > Len(t) \/ ~IsDigit(t[estart])
             THEN [has |-> TRUE, ok |-> FALSE, val |-> 0, end |-> estart]
             ELSE LET eend == ExponentEnd(t, estart)
                      e    == ExponentValue(StripLeadingZeros(
                                  SelectSeq(SubSeq(t, estart, eend - 1), IsDigit)), 0)
                  IN  [has |-> TRUE, ok |-> TRUE, end |-> eend,
                       val |-> IF t[i + 1] = "-" THEN 0 - e ELSE e]

\* strconv.atof64 on a decimal number: the float64 nearest to the number
\* that the digits sig write, times 10^exp
FloatOfDecimal(neg, sig, exp) ==
    IF sig = << >> THEN Zero(neg)
    ELSE IF Len(sig) + exp > MaxDecimalDigits THEN Inf(neg)
    ELSE IF Len(sig) + exp < MinDecimalDigits THEN Zero(neg)
    ELSE IF exp >= 0
         THEN Ratio(neg, MulBig(DigitsValue(sig), Pow5Big(exp)), << 1 >>, exp)
         ELSE Ratio(neg, DigitsValue(sig), Pow5Big(0 - exp), exp)

\* strconv.atofHex: the float64 nearest to the number that the hexadecimal
\* digits sig write, times 2^exp
FloatOfHex(neg, sig, exp) == Ratio(neg, HexValue(sig), << 1 >>, exp)

\* strconv.atof64: the float64 of the significant digits of a mantissa
\* times the base to the power exp
FloatOfDigits(neg, hex, sig, exp) ==
    IF hex THEN FloatOfHex(neg, sig, exp) ELSE FloatOfDecimal(neg, sig, exp)

\* strconv.ParseFloat after readFloat: what was read must be well formed
\* and be all of the string; a number that rounds to an infinity is a
\* range error, returned with the infinity
ParseRead(t, neg, hex, mdigits, frac, x) ==
    LET read == SubSeq(t, 1, x.end - 1) IN
    IF /\ mdigits # << >>
       /\ x.ok
       /\ hex => x.has
       /\ (\E i \in 1..Len(read) : read[i] = "_") => UnderscoreOK(read)
       /\ x.end = Len(t) + 1
    THEN LET val == FloatOfDigits(neg, hex, StripLeadingZeros(mdigits),
                                  x.val - (IF hex THEN 4 * frac ELSE frac))
         IN  [err |-> val.kind # "num", val |-> val]
    ELSE [err |-> TRUE, val |-> Zero(FALSE)]

\* strconv.readFloat on a string without its sign: decimal digits with at
\* most one point and an optional exponent after e, or 0x, hexadecimal
\* digits with at most one point and an exponent of two after p
ReadMantissa(t, neg, hex, mend) ==
    LET mant == SubSeq(t, IF hex THEN 3 ELSE 1, mend - 1) IN
    ParseRead(t, neg, hex, MantissaDigits(mant, hex), FractionDigits(mant, hex),
              ReadExponent(t, mend, IF hex THEN "p" ELSE "e"))

ReadFloat(t, neg) ==
    LET hex == Len(t) >= 3 /\ t[1] = "0" /\ ToLower(t[2]) = "x" IN
    ReadMantissa(t, neg, hex, MantissaEnd(t, IF hex THEN 3 ELSE 1, hex))

\* strconv.ParseFloat(s, 64): an infinity or NaN, or an optional sign and
\* what readFloat reads; underscores as underscoreOK allows.  Anything
\* else is a syntax error.
ParseFloat(s) ==
    LET signed == s # << >> /\ s[1] \in { "+", "-" } IN
    IF Special(s).ok
    THEN [err |-> FALSE, val |-> Special(s).val]
    ELSE ReadFloat(IF signed THEN Tail(s) ELSE s, signed /\ s[1] = "-")

\* The strings of the three load-balancer fields of a configuration
LbRateStrings ==
    { << "0", ".", "0", "2", "5" >>, << "0", ".", "0", "1" >>, << "0" >>,
      << "1", "e", "-", "2" >>, << "1", "e", "3", "0", "8" >>,
      << "-", "1", "e", "3", "0", "8" >>, << "I", "n", "f" >>, << >> }

LbConfigs ==
    [FirstFiveForwardingRulesCost : LbRateStrings,
     AdditionalForwardingRuleCost : LbRateStrings,
     LBIngressDataCost : LbRateStrings]

\* LoadBalancerPricing: totalCost, from the three rates, the number of
\* forwarding rules and the ingress data
TotalCostNoTier(fffrc, afrc, lbidc, numForwardingRules, dataIngressGB) ==
    IF numForwardingRules < 5
    THEN Add(Mul(fffrc, numForwardingRules), Mul(lbidc, dataIngressGB))
    ELSE Add(Add(Mul(fffrc, 5), Mul(afrc, numForwardingRules)), Mul(lbidc, dataIngressGB))
TotalCost(fffrc, afrc, lbidc, numForwardingRules, dataIngressGB) ==
    IF numForwardingRules < 5
    THEN Add(Mul(fffrc, numForwardingRules), Mul(lbidc, dataIngressGB))
    ELSE Add(Add(Mul(fffrc, 5), Mul(afrc, numForwardingRules - 5)), Mul(lbidc, dataIngressGB))

\* The three rates of a configuration, in the order in which
\* LoadBalancerPricing parses them
LbFields ==
    << "FirstFiveForwardingRulesCost", "AdditionalForwardingRuleCost", "LBIngressDataCost" >>

NoLbCall == [pc |-> "idle"]

\* LoadBalancerPricing after GetCustomPricingData: the configuration cannot
\* be fetched, which is returned as an error, or it is cpricing
LbFetched(fetchErr, cpricing) ==
    IF fetchErr
    THEN [pc |-> "done", err |-> TRUE, fetched |-> FALSE]
    ELSE [pc |-> "parse", fetched |-> TRUE, cpricing |-> cpricing, rates |-> << >>]

\* LoadBalancerPricing after one strconv.ParseFloat, which gave r: an error
\* is returned, a number is the next of the three rates
LbParsed(call, r) ==
    IF r.err
    THEN [pc |-> "done", err |-> TRUE, fetched |-> TRUE, cpricing |-> call.cpricing]
    ELSE [pc |-> IF Len(call.rates) + 1 = Len(LbFields) THEN "total" ELSE "parse",
          fetched |-> TRUE, cpricing |-> call.cpricing, rates |-> Append(call.rates, r.val)]

\* The rule count and the data that LoadBalancerPricing hard-codes
HardCodedRules  == 1
HardCodedDataGB == 0

\* LoadBalancerPricing is called and fetches the configuration; cpricing is
\* what the load-balancer fields of the configuration hold
LbFetch(cpricing) ==
    /\ lbCall.pc = "idle"
    /\ lbCall' = LbFetched(configErr, cpricing)
    /\ UNCHANGED <<regVars, nameVars, copyVars, config, configErr, pricing, cpLabels,
                   nodeCall, updateCall, tableVars>>

\* LoadBalancerPricing parses the next of the three rates
LbParse ==
    /\ lbCall.pc = "parse"
    /\ lbCall' = LbParsed(lbCall, ParseFloat(lbCall.cpricing[LbFields[Len(lbCall.rates) + 1]]))
    /\ UNCHANGED <<regVars, nameVars, copyVars, config, configErr, pricing, cpLabels,
                   nodeCall, updateCall, tableVars>>

\* LoadBalancerPricing computes the cost of the hard-coded load balancer
\* and returns it
LbTotal ==
    /\ lbCall.pc = "total"
    /\ lbCall' = [pc |-> "done", err |-> FALSE, fetched |-> TRUE,
                  cpricing |-> lbCall.cpricing, rates |-> lbCall.rates,
                  Cost |-> TotalCost(lbCall.rates[1], lbCall.rates[2], lbCall.rates[3],
                                     HardCodedRules, HardCodedDataGB)]
    /\ UNCHANGED <<regVars, nameVars, copyVars, config, configErr, pricing, cpLabels,
                   nodeCall, updateCall, tableVars>>

\* The configuration becomes impossible to load, or possible again, before
\* LoadBalancerPricing is called
LbConfigAvailability(err) ==
    /\ lbCall.pc = "idle"
    /\ ConfigAvailability(err)

LbNext ==
    \/ \E err \in BOOLEAN : LbConfigAvailability(err)
    \/ \E cpricing \in LbConfigs : LbFetch(cpricing)
    \/ LbParse
    \/ LbTotal

PriceNext ==
    \/ \E c \in Configs : ConfigChange(c)
    \/ \E err \in BOOLEAN : ConfigAvailability(err)
    \/ DownloadLock("DownloadPricingData")
    \/ \E err \in BOOLEAN : DownloadFetch(err)
    \/ DownloadLabel
    \/ DownloadAssign
    \/ DownloadUnlock
    \/ \E labels \in NodeLabels : CallGetKey(labels)
    \/ ReadLabel
    \/ \E hashed \in BOOLEAN : CallNodePricing(hashed)

\* A caller of UpdateConfig, callers of DownloadPricingData and the owner of
\* the configuration
UpdateNext ==
    \/ \E c \in Configs : ConfigChange(c)
    \/ \E err \in BOOLEAN : ConfigAvailability(err)
    \/ \E body \in UpdateBodies : UpdateCall(body)
    \/ \E order \in IF updateCall.phase = "called" /\ updateCall.body.json
                    THEN Orders(updateCall.body.a) ELSE { << >> } : UpdateApply(order)
    \/ \E by \in { "DownloadPricingData", "UpdateConfig" } : DownloadLock(by)
    \/ \E err \in BOOLEAN : DownloadFetch(err)
    \/ DownloadLabel
    \/ DownloadAssign
    \/ DownloadUnlock

----------------------------------------------------------------------------
(* The rate table as its callers see it: a caller that keeps what          *)
(* AllNodePricing returned                                                  *)

\* AllNodePricing: the value returned is cp.Pricing itself, nil or the map
\* that DownloadPricingData assigns into
AllNodePricing(p) == [nil |-> p.nil]

\* The contents of the map a value returned by AllNodePricing refers to
MapOf(ref) == IF ref.nil THEN EmptyMap ELSE pricing.m

\* AllNodePricing: the read lock waits for the writer, and is released when
\* the call returns
CallAllNodePricing ==
    /\ allCall.phase = "none"
    /\ rebuild.pc = "idle"
    /\ allCall' = [phase |-> "returned", ref |-> AllNodePricing(pricing),
                   returned |-> pricing.m, read |-> pricing.m, locked |-> FALSE]
    /\ UNCHANGED <<regVars, nameVars, copyVars, config, configErr, pricing, cpLabels,
                   nodeCall, updateCall, lbCall, rebuild>>

\* The caller reads the map it holds.  It takes no lock; a read of the map
\* while DownloadPricingData assigns into it is a data race, which the
\* runtime may end the process for
ReadReturned(fatal) ==
    /\ allCall.phase = "returned"
    /\ fatal => (rebuild.pc = "assign" /\ ~allCall.ref.nil)
    /\ allCall' = IF fatal
                  THEN [allCall EXCEPT !.phase = "fatal", !.locked = TRUE]
                  ELSE [allCall EXCEPT !.read = MapOf(allCall.ref),
                                       !.locked = rebuild.pc # "idle" /\ ~allCall.ref.nil]
    /\ UNCHANGED <<regVars, nameVars, copyVars, config, configErr, pricing, cpLabels,
                   nodeCall, updateCall, lbCall, rebuild>>

TableNext ==
    \/ \E c \in Configs : ConfigChange(c)
    \/ \E err \in BOOLEAN : ConfigAvailability(err)
    \/ DownloadLock("DownloadPricingData")
    \/ \E err \in BOOLEAN : DownloadFetch(err)
    \/ DownloadLabel
    \/ DownloadAssign
    \/ DownloadUnlock
    \/ CallAllNodePricing
    \/ \E fatal \in BOOLEAN : ReadReturned(fatal)

----------------------------------------------------------------------------
(* NewClusterMap has returned: the map is empty, the goroutine is started  *)
(* and is about to make its first refreshClusters call                     *)

RegInit ==
    /\ clusters = EmptyMap
    /\ origin = EmptyMap
    /\ snapCycle = 0
    /\ cycle = 0
    /\ task = [pc |-> "load", attempts |-> 0, updated |-> Snapshot(EmptyMap, 0),
               err |-> FALSE, selChan |-> "chan", stopped |-> FALSE]
    /\ lock = [writer |-> FALSE, pending |-> FALSE, readers |-> 0]
    /\ readers = [r \in Readers |-> IdleReader]
    /\ pcmStop = "chan"
    /\ stopClosed = 0
    /\ fault = FALSE
    /\ stoppers = [pc |-> [s \in Stoppers |-> "idle"], calls |-> 0, returned |-> 0]
    /\ lastRefresh = [outcome |-> "none", first |-> "pending"]
    /\ loadCall = [done |-> FALSE]

NameInit  == nameCall = [done |-> FALSE]
\* Addresses.  An object is named after the allocation that made it: the
\* map and the records built by refresh cycle n, and the map and the
\* records made for the value that handle n holds.
Addr(space, n, key) == [space |-> space, n |-> n, key |-> key]

CopyInit  ==
    /\ heap = [recs |-> EmptyMap, maps |-> Put(EmptyMap, Addr("pcm", 0, Empty), EmptyMap)]
    /\ pcmRefs = Addr("pcm", 0, Empty)
    /\ copies = EmptyMap
    /\ copyLog = [op |-> "none", h |-> 0]
\* A CustomProvider as the provider factory makes it: the configuration is
\* loaded, cp.Pricing is nil and the four label fields are empty
PriceInit ==
    /\ config = DefaultConfig
    /\ configErr = FALSE
    /\ updateCall = NoUpdateCall
    /\ pricing = [nil |-> TRUE, m |-> EmptyMap]
    /\ cpLabels = [SpotLabel |-> "", SpotLabelValue |-> "", GPULabel |-> "", GPULabelValue |-> ""]
    /\ nodeCall = NoNodeCall
    /\ lbCall = NoLbCall
    /\ rebuild = NoRebuild
    /\ allCall = NoAllCall

\* A panic ends the process
Init == RegInit /\ NameInit /\ CopyInit /\ PriceInit

\* The goroutine and the readers
Next ==
    /\ TaskStep \/ ReaderStep(Readers)
    /\ UNCHANGED <<nameVars, copyVars, priceVars>>

Spec == Init /\ [][Next]_vars

\* The rate table, its writer and a caller of GetKey and NodePricing
PriceSpec == Init /\ [][PriceNext]_vars

\* The configuration, a caller of UpdateConfig and the rate table
UpdateSpec == Init /\ [][UpdateNext]_vars

\* The load-balancer cost alone
LbSpec == Init /\ [][LbNext]_vars

\* The rate table, its writer and a caller of AllNodePricing
TableSpec == Init /\ [][TableNext]_vars

\* The goroutine, the callers of StopRefresh and one reader.  A panic ends
\* the process.
StopNext ==
    /\ ~fault
    /\ TaskStep \/ StopperStep \/ ReaderStep({ "r1" })
    /\ UNCHANGED <<nameVars, copyVars, priceVars>>

StopSpec == Init /\ [][StopNext]_vars

\* The goroutine and the callers of StopRefresh, each on a thread of its own
ConcurrentStopNext ==
    /\ ~fault
    /\ TaskStep \/ ConcurrentStopperStep
    /\ UNCHANGED <<nameVars, copyVars, priceVars>>

ConcurrentStopSpec == Init /\ [][ConcurrentStopNext]_vars

----------------------------------------------------------------------------
(* The first refresh of the goroutine with no other thread running, for    *)
(* every answer of the backend and of the local provider                   *)

MaxRows   == 2     \* rows in a query result
MaxStrLen == 2     \* characters in a cluster id or name

\* The labels of a row and the values they take
RowLabelValues(label) ==
    CASE label = "id"             -> { LocalClusterID, << "b" >> }
      [] label = "name"           -> { Empty, << "n" >> }
      [] label = "clusterprofile" -> { << "p" >> }
      [] label = "provider"       -> { << "g" >> }
      [] label = "provisioner"    -> { << "k" >> }

RowLabelSets ==
    { req \cup opt : req \in SUBSET { "id", "name" },
                     opt \in { {}, { "clusterprofile" }, { "provider" },
                               { "clusterprofile", "provisioner" } } }

RowsOver(labels) ==
    { row \in [labels -> UNION { RowLabelValues(l) : l \in labels }] :
        \A l \in labels : row[l] \in RowLabelValues(l) }

AllRows == UNION { RowsOver(labels) : labels \in RowLabelSets }

RECURSIVE RowLists(_)
RowLists(n) ==
    IF n = 0 THEN { << >> }
    ELSE LET shorter == RowLists(n - 1) IN
         shorter \cup { Append(qr, row) : qr \in shorter, row \in AllRows }

\* What a local provider may answer: its own id or another one, a name or
\* none, no id
AllLocalInfos ==
    { [id |-> LocalClusterID, name |-> << "h" >>, provider |-> << "c" >>],
      [id |-> << "b" >>, name |-> << "h" >>, clusterProfile |-> << "q" >>],
      [id |-> LocalClusterID, provider |-> << "c" >>],
      [name |-> << "h" >>] }

\* The first refreshClusters call of the goroutine
LoadNext ==
    /\ \/ TaskQueryFail
       \/ \E qr \in RowLists(MaxRows), info \in AllLocalInfos : TaskQueryOk(qr, info)
       \/ TaskQueryNotRows
       \/ TaskLock
       \/ TaskSwap
       \/ TaskUnlock
    /\ UNCHANGED <<nameVars, copyVars, priceVars>>

LoadSpec == Init /\ [][LoadNext]_vars

\* The cluster ids and names of the round trip through NameIDFor and
\* SplitNameID
NameStrings == StringsUpTo({ "a", Slash }, MaxStrLen)

\* SplitNameID(NameIDFor(clusterID)) on the map m
RoundTrip(m, clusterID) ==
    [done |-> TRUE, id |-> clusterID, info |-> InfoFor(m, clusterID),
     nameID |-> NameIDFor(m, clusterID), split |-> SplitNameID(NameIDFor(m, clusterID))]

\* A caller, after the first refresh has returned.  NameIDFor runs under the
\* read lock.
NameRoundTrip(clusterID) ==
    /\ lastRefresh.outcome = "ok"
    /\ ~lock.writer /\ ~lock.pending
    /\ nameCall' = RoundTrip(clusters, clusterID)
    /\ UNCHANGED <<regVars, copyVars, priceVars>>

NameNext ==
    \/ /\ \/ \E id \in NameStrings, name \in NameStrings, info \in AllLocalInfos :
                TaskQueryOk(<< [id |-> id, name |-> name] >>, info)
          \/ TaskLock
          \/ TaskSwap
          \/ TaskUnlock
       /\ UNCHANGED <<nameVars, copyVars, priceVars>>
    \/ \E id \in NameStrings : NameRoundTrip(id)

NameSpec == Init /\ [][NameNext]_vars

----------------------------------------------------------------------------
(* The references AsMap and InfoFor return.  The ClusterInfo records and   *)
(* the maps are objects with addresses; a caller holds what the calls      *)
(* returned and writes through it.  Objects nothing refers to are          *)
(* collected.  The goroutine refreshes step by step; one caller, whose     *)
(* calls hold the read lock from their first statement to their last.      *)

MaxCopies == 2     \* values of AsMap and InfoFor a caller holds at a time

NilAddr == Addr("nil", 0, Empty)

\* The mutant of Clone that returns the record itself
CloneAlias(ci, new) == ci

\* ClusterInfo.Clone: nil for nil, else the address new of a new record; its
\* fields are copied from ci by CloneInto
Clone(ci, new) == IF ci = NilAddr THEN NilAddr ELSE new

\* The records after &ClusterInfo{ID: ci.ID, ...} made the record at c
CloneInto(recs, ci, c) == IF c = NilAddr THEN recs ELSE Put(recs, c, recs[ci])

\* m := make(...); for k, v := range pcm.clusters { m[k] = v.Clone() }, for
\* handle h: the records and the new map after the entries of src with the
\* keys left
RECURSIVE CloneEntries(_, _, _, _, _)
CloneEntries(recs, src, left, m, h) ==
    IF left = {} THEN [recs |-> recs, m |-> m]
    ELSE LET k == CHOOSE x \in left : TRUE
             c == Clone(src[k], Addr("copy", h, k))
         IN  CloneEntries(CloneInto(recs, src[k], c), src, left \ {k}, Put(m, k, c), h)

\* The records of the map m built by refresh cycle n, and the map of their
\* addresses
StoreEntries(recs, m, n) ==
    [recs |-> PutAll(recs, [a \in { Addr("pcm", n, k) : k \in DOMAIN m } |-> m[a.key]]),
     m |-> [k \in DOMAIN m |-> Addr("pcm", n, k)]]

\* The contents of the map at address a
MapContent(hp, a) == [k \in DOMAIN hp.maps[a] |-> hp.recs[hp.maps[a][k]]]

\* The contents of what handle h holds
CopyContent(hp, held) ==
    IF held.kind = "map" THEN MapContent(hp, held.addr)
    ELSE IF held.addr = NilAddr THEN Nil
    ELSE hp.recs[held.addr]

\* The objects that pcm.clusters (at p) and the handles cs refer to
Collect(hp, p, cs) ==
    LET mapAddrs == { p } \cup { cs[h].addr : h \in { x \in DOMAIN cs : cs[x].kind = "map" } }
        recAddrs == UNION { { hp.maps[a][k] : k \in DOMAIN hp.maps[a] } : a \in mapAddrs }
                    \cup { cs[h].addr : h \in { x \in DOMAIN cs : cs[x].kind = "info" } }
    IN  [recs |-> Restrict(hp.recs, recAddrs \cap DOMAIN hp.recs),
         maps |-> Restrict(hp.maps, mapAddrs)]

\* pcm.clusters = updated, on the heap: the records and the map that
\* loadClusters built are objects of their own, and pcm.clusters refers to
\* the new map, or is nil
CopySwap ==
    /\ TaskSwap
    /\ LET a == IF snapCycle' = NilSnapshot.cycle THEN NilAddr
                ELSE Addr("pcm", snapCycle', Empty)
           st == StoreEntries(heap.recs, clusters', snapCycle')
       IN  /\ pcmRefs' = a
           /\ heap' = Collect([recs |-> st.recs, maps |-> Put(heap.maps, a, st.m)], a, copies)
    /\ copyLog' = [op |-> "refresh", h |-> 0]
    /\ UNCHANGED copies

\* What the local provider of this section answers: no id, so that the map
\* holds the clusters of the rows only
CopyLocalInfo == [name |-> << "h" >>]

\* The other steps of the goroutine
CopyTaskStep ==
    /\ \/ TaskQueryFail
       \/ \E qr \in Responses : TaskQueryOk(qr, CopyLocalInfo)
       \/ TaskQueryNotRows
       \/ TaskLock
       \/ TaskUnlock
       \/ TaskSelect
       \/ TaskTick
    /\ copyLog' = [op |-> "task", h |-> 0]
    /\ UNCHANGED <<heap, pcmRefs, copies>>

\* h = AsMap(), under the read lock
CopyAsMap(h) ==
    /\ h \notin DOMAIN copies
    /\ ~lock.writer /\ ~lock.pending
    /\ LET a == Addr("copy", h, Empty)
           ce == CloneEntries(heap.recs, heap.maps[pcmRefs], DOMAIN heap.maps[pcmRefs],
                              EmptyMap, h)
       IN  /\ heap' = [recs |-> ce.recs, maps |-> Put(heap.maps, a, ce.m)]
           /\ copies' = Put(copies, h, [kind |-> "map", addr |-> a])
    /\ copyLog' = [op |-> "AsMap", h |-> h]
    /\ UNCHANGED <<regVars, pcmRefs>>

\* h = InfoFor(clusterID), under the read lock
CopyInfoFor(h, clusterID) ==
    /\ h \notin DOMAIN copies
    /\ ~lock.writer /\ ~lock.pending
    /\ LET src == heap.maps[pcmRefs]
           ci == IF clusterID \in DOMAIN src THEN src[clusterID] ELSE NilAddr
           c == Clone(ci, Addr("copy", h, clusterID))
       IN  /\ heap' = [heap EXCEPT !.recs = CloneInto(@, ci, c)]
           /\ copies' = Put(copies, h, [kind |-> "info", addr |-> c])
    /\ copyLog' = [op |-> "InfoFor", h |-> h]
    /\ UNCHANGED <<regVars, pcmRefs>>

\* The record addresses handle h gives access to
HeldRecords(h) ==
    IF copies[h].kind = "map"
    THEN { heap.maps[copies[h].addr][k] : k \in DOMAIN heap.maps[copies[h].addr] }
    ELSE { copies[h].addr } \ { NilAddr }

\* The caller writes a field of a record it was given: info.Name = "x"
CopyWriteRecord(h) ==
    /\ h \in DOMAIN copies
    /\ \E a \in HeldRecords(h) :
          /\ heap.recs[a].Name # << "x" >>
          /\ heap' = [heap EXCEPT !.recs[a].Name = << "x" >>]
    /\ clusters' = MapContent(heap', pcmRefs)
    /\ copyLog' = [op |-> "write", h |-> h]
    /\ UNCHANGED <<origin, snapCycle, cycle, task, lock, readers, pcmStop, stopClosed, fault,
                   stoppers, lastRefresh, loadCall, pcmRefs, copies>>

\* The caller deletes an entry of a map it was given: delete(m, k)
CopyDeleteEntry(h) ==
    /\ h \in DOMAIN copies
    /\ copies[h].kind = "map"
    /\ \E k \in DOMAIN heap.maps[copies[h].addr] :
          heap' = Collect([heap EXCEPT !.maps[copies[h].addr] =
                              Restrict(@, (DOMAIN @) \ {k})], pcmRefs, copies)
    /\ clusters' = MapContent(heap', pcmRefs)
    /\ copyLog' = [op |-> "delete", h |-> h]
    /\ UNCHANGED <<origin, snapCycle, cycle, task, lock, readers, pcmStop, stopClosed, fault,
                   stoppers, lastRefresh, loadCall, pcmRefs, copies>>

\* The caller lets go of what it was given
CopyDrop(h) ==
    /\ h \in DOMAIN copies
    /\ copies' = Restrict(copies, (DOMAIN copies) \ {h})
    /\ heap' = Collect(heap, pcmRefs, copies')
    /\ copyLog' = [op |-> "drop", h |-> h]
    /\ UNCHANGED <<regVars, pcmRefs>>

CopyNext ==
    /\ \/ CopyTaskStep
       \/ CopySwap
       \/ \E h \in 1..MaxCopies :
             \/ CopyAsMap(h)
             \/ \E id \in QueryIDs \cup { << "z" >> } : CopyInfoFor(h, id)
             \/ CopyWriteRecord(h)
             \/ CopyDeleteEntry(h)
             \/ CopyDrop(h)
    /\ UNCHANGED <<nameVars, priceVars>>

CopySpec == Init /\ [][CopyNext]_vars

\* The scheduling of StopSpec: every thread that can take a step eventually
\* takes one, and a select whose stop case is ready again and again
\* eventually picks it (a select picks among its ready cases at random)
TaskAct   == TaskStep /\ UNCHANGED <<nameVars, copyVars, priceVars>>
TaskStopAct == TaskStop /\ UNCHANGED <<nameVars, copyVars, priceVars>>
StopperRun ==
    /\ \E s \in Stoppers : StopCheck(s) \/ StopClose(s) \/ StopClear(s)
    /\ UNCHANGED <<nameVars, copyVars, priceVars>>
ReaderRun ==
    /\ ReadBody("r1") \/ ReadUnlock("r1")
    /\ UNCHANGED <<nameVars, copyVars, priceVars>>

FairStopSpec ==
    /\ StopSpec
    /\ WF_vars(~fault /\ TaskAct)
    /\ SF_vars(~fault /\ TaskStopAct)
    /\ WF_vars(~fault /\ StopperRun)
    /\ WF_vars(~fault /\ ReaderRun)

----------------------------------------------------------------------------
(* Properties of the refresh *)

\* C1: a refresh whose every attempt failed does not write the map: from
\* the start of a refresh, through its LoadRetries failed attempts and until
\* the next refresh starts, pcm.clusters stays the map it was.
C1_FailedRefreshKeepsSnapshot ==
    [][(task.pc = "load" \/ task.err) => clusters' = clusters]_vars

C1_Witness ==
    /\ task.err /\ task.attempts = LoadRetries /\ task.pc = "blocked"
    /\ lastRefresh.outcome = "failed"
    /\ snapCycle > 0 /\ clusters # EmptyMap

\* C2: the entries a read operation has looked at were all built by one
\* refresh cycle, the one that built the map it read; and so are the entries
\* of pcm.clusters at any time.
C2_ReadSeesOneCycle ==
    /\ \A r \in Readers :
          readers[r].pc = "done" => readers[r].seen \subseteq { readers[r].mapCycle }
    /\ \A k \in DOMAIN clusters : origin[k] = snapCycle

C2_Witness ==
    /\ readers["r1"].pc = "done" /\ readers["r1"].call.op = "AsMap"
    /\ readers["r1"].seen = { 2 } /\ Cardinality(DOMAIN readers["r1"].result) > 1
    /\ readers["r2"].pc = "done" /\ readers["r2"].call.op = "NameIDFor"
    /\ task.pc = "load"

\* C5 as claimed: a read finds the first refresh finished, and finds the
\* refreshed map when the first refresh succeeded.
C5_FirstRefreshBeforeReturn ==
    \A r \in Readers :
        readers[r].pc = "done" =>
            /\ lastRefresh.first # "pending"
            /\ lastRefresh.first = "ok" => readers[r].mapCycle >= 1

\* C5 as amended: NewClusterMap returns without waiting for the first
\* refresh, which is the first thing the goroutine does, before it waits for
\* any tick; once the first refresh has finished with success, pcm.clusters
\* and every read hold what a refresh has loaded, not the constructor's map.
C5_FirstRefreshInTask ==
    /\ lastRefresh.first = "pending" => task.pc \in { "load", "lock", "swap", "unlock" }
    /\ lastRefresh.first = "ok" =>
          /\ snapCycle # 0
          /\ \A r \in Readers : readers[r].pc = "done" => readers[r].mapCycle # 0

C5_Witness ==
    /\ lastRefresh.first = "ok"
    /\ readers["r1"].pc = "done" /\ readers["r1"].mapCycle = 1
    /\ readers["r1"].call.op = "GetClusterIDs" /\ readers["r1"].result # {}

----------------------------------------------------------------------------
(* Properties of StopRefresh *)

\* C3 as claimed: once StopRefresh has been called, the goroutine
\* eventually takes the stop case and exits.
C3_StopEndsTask == (stoppers.calls > 0) ~> (task.pc = "exited")

\* C4 as claimed: once a StopRefresh call has returned, pcm.clusters is
\* never replaced.
C4_NoSwapAfterStopReturns ==
    [][stoppers.returned > 0 => clusters' = clusters]_vars

\* C4 as amended: once the goroutine has taken the stop case, pcm.clusters
\* is never replaced, so every later read returns the map of that moment.
C4_NoSwapAfterTaskExit ==
    [][task.stopped => clusters' = clusters]_vars

C4_Witness ==
    /\ task.stopped /\ task.pc = "exited" /\ clusters # EmptyMap
    /\ readers["r1"].pc = "done" /\ readers["r1"].result = clusters

\* C6: over sequential StopRefresh calls the stop channel is closed exactly
\* once and no call panics.
C6_ClosedOnce ==
    /\ stopClosed <= 1
    /\ ~fault
    /\ stoppers.returned > 0 => stopClosed = 1

C6_Witness ==
    /\ stoppers.returned = 2 /\ stopClosed = 1 /\ pcmStop = "nil"

----------------------------------------------------------------------------
(* Properties of loadClusters *)

\* The rows of qr that carry both an id and a name
ValidRows(qr) == { i \in 1..Len(qr) : "id" \in DOMAIN qr[i] /\ "name" \in DOMAIN qr[i] }

\* The label of a row, or the empty string
LabelOr(row, label) == IF label \in DOMAIN row THEN row[label] ELSE Empty

\* C7: when a refresh whose query succeeded has returned, the keys of the map are the ids of the rows
\* that carry both an id and a name, and the key of the local-identity
\* entry when loadClusters adds one; a row missing either does not stop the
\* load; the entry of an id is made of the labels of the last such row with
\* that id, the absent ones as the empty string.
C7_ValidRowsOnly ==
    (loadCall.done /\ task.pc = "select") =>
        LET qr == loadCall.qr
            info == loadCall.info
            rowIDs == { qr[i]["id"] : i \in ValidRows(qr) }
            localKey == IF LocalClusterID \notin rowIDs /\ "id" \in DOMAIN info
                           /\ "name" \in DOMAIN info
                        THEN { info["id"] } ELSE {}
        IN  /\ DOMAIN clusters = rowIDs \cup localKey
            /\ \A k \in rowIDs \ localKey :
                  LET last == CHOOSE i \in ValidRows(qr) :
                                  /\ qr[i]["id"] = k
                                  /\ \A j \in ValidRows(qr) : qr[j]["id"] = k => j <= i
                  IN  clusters[k] = [ID |-> k, Name |-> qr[last]["name"],
                                     Profile |-> LabelOr(qr[last], "clusterprofile"),
                                     Provider |-> LabelOr(qr[last], "provider"),
                                     Provisioner |-> LabelOr(qr[last], "provisioner")]

C7_Witness ==
    /\ loadCall.done /\ task.pc = "select" /\ Len(loadCall.qr) = 2
    /\ DOMAIN loadCall.qr[1] = { "name", "provider" }
    /\ DOMAIN loadCall.qr[2] = { "id", "name", "clusterprofile" }
    /\ DOMAIN clusters = { << "b" >> }
    /\ clusters[<< "b" >>].Profile = << "p" >> /\ clusters[<< "b" >>].Provider = Empty

----------------------------------------------------------------------------
(* Properties of NameIDFor and SplitNameID *)

\* C8 as claimed: for a cluster of the registry whose name has no "/",
\* SplitNameID(NameIDFor(id)) is the id and the name.
C8_RoundTripAnyID ==
    (nameCall.done /\ nameCall.info # Nil /\ ~ContainsSlash(nameCall.info.Name)) =>
        nameCall.split = [id |-> nameCall.id, name |-> nameCall.info.Name]

\* C8 as amended: for a cluster of the registry whose name has no "/" and
\* whose id has no "/", SplitNameID(NameIDFor(id)) is the id and the name.
C8_RoundTripPlainID ==
    (nameCall.done /\ nameCall.info # Nil /\ ~ContainsSlash(nameCall.info.Name)
        /\ ~ContainsSlash(nameCall.id)) =>
        nameCall.split = [id |-> nameCall.id, name |-> nameCall.info.Name]

C8_Witness ==
    /\ nameCall.done /\ nameCall.info # Nil
    /\ nameCall.id = << "a" >> /\ nameCall.info.Name = << "a", "a" >>
    /\ nameCall.nameID = << "a", "a", Slash, "a" >>
    /\ nameCall.split = [id |-> << "a" >>, name |-> << "a", "a" >>]

----------------------------------------------------------------------------
(* Properties of the values AsMap and InfoFor return *)

\* The contents of what the handles hold
HeldContents == [h \in DOMAIN copies |-> CopyContent(heap, copies[h])]

\* C9: AsMap returns a map whose contents are those of pcm.clusters, so two
\* calls with no refresh between them return equal contents; a write by the
\* caller through a returned record or to a returned map changes neither
\* the contents of pcm.clusters nor those of any other returned value; a
\* refresh changes the contents of none of the returned values.
C9_IndependentCopies ==
    [][ /\ copyLog'.op = "AsMap" =>
              /\ HeldContents'[copyLog'.h] = clusters
              /\ clusters' = clusters
        /\ copyLog'.op = "InfoFor" => clusters' = clusters
        /\ copyLog'.op \in { "write", "delete" } =>
              /\ clusters' = clusters
              /\ MapContent(heap, pcmRefs)' = MapContent(heap, pcmRefs)
              /\ \A g \in (DOMAIN copies) \ { copyLog'.h } :
                    HeldContents'[g] = HeldContents[g]
        /\ copyLog'.op \in { "refresh", "AsMap", "InfoFor" } =>
              \A g \in DOMAIN copies : HeldContents'[g] = HeldContents[g]
      ]_vars

\* Two AsMap values of the same non-empty map are held, one has been written
\* through, and the registry has been refreshed since
C9_Witness ==
    /\ DOMAIN copies = { 1, 2 }
    /\ copies[1].kind = "map" /\ copies[2].kind = "map"
    /\ DOMAIN HeldContents[1] = DOMAIN HeldContents[2]
    /\ DOMAIN HeldContents[1] # {}
    /\ HeldContents[1] # HeldContents[2]
    /\ copyLog.op = "refresh" /\ snapCycle = 2
    /\ DOMAIN clusters # DOMAIN HeldContents[1]

----------------------------------------------------------------------------
(* Properties of NodePricing *)

\* C10 as claimed: after a successful rebuild, NodePricing for a key that is
\* both spot and GPU returns a Node, priced by the default entry, and does
\* not fault.
C10_SpotGpuPricedByDefault ==
    (/\ nodeCall.phase \in { "priced", "fault" }
     /\ nodeCall.rebuilt
     /\ Features(nodeCall.key) = TagSpot
     /\ GPUType(nodeCall.key) # "") =>
        /\ nodeCall.phase = "priced"
        /\ nodeCall.tag = << "default", "spot", "gpu" >>

C12_UpdateRebuildsBeforeReturn ==
    [][(/\ updateCall.phase = "deferred"
        /\ updateCall'.phase = "returned") =>
           /\ ~rebuild.err
           /\ pricing'.m = Rebuild(EmptyMap, rebuild.p)]_vars

\* C13: when DownloadPricingData returns no error the rate table holds
\* exactly the keys "default", "default,spot" and "default,gpu", with
\* default = {CPU, RAM, no GPU}, default,spot = {SpotCPU, SpotRAM, no GPU}
\* and default,gpu = {CPU, RAM, GPU} of the configuration fetched in that call.
C13_ThreeEntries ==
    (rebuild.pc = "return" /\ ~rebuild.err) =>
        /\ ~pricing.nil
        /\ DOMAIN pricing.m = { << "default" >>, << "default", "spot" >>, << "default", "gpu" >> }
        /\ pricing.m[<< "default" >>] = [CPU |-> rebuild.p.CPU, RAM |-> rebuild.p.RAM, GPU |-> ""]
        /\ pricing.m[<< "default", "spot" >>] =
               [CPU |-> rebuild.p.SpotCPU, RAM |-> rebuild.p.SpotRAM, GPU |-> ""]
        /\ pricing.m[<< "default", "gpu" >>] =
               [CPU |-> rebuild.p.CPU, RAM |-> rebuild.p.RAM, GPU |-> rebuild.p.GPU]

\* A rebuild returns that has replaced the rates a node was priced with before
C13_Witness ==
    /\ rebuild.pc = "return"
    /\ ~rebuild.err
    /\ nodeCall.phase = "priced"
    /\ nodeCall.node.VCPUCost \notin { rebuild.p.CPU, rebuild.p.SpotCPU }
    /\ pricing.m[<< "default", "spot" >>].CPU = rebuild.p.SpotCPU

----------------------------------------------------------------------------
(* Properties of the local identity *)

\* C14: a refresh whose query succeeds and whose local provider answers
\* without an id or without a name succeeds: when it has returned, the
\* snapshot has been replaced by the map of the rows that carry an id and a
\* name, and no local entry is added.
C14_LocalFailureStillSucceeds ==
    (/\ loadCall.done /\ task.pc = "select"
     /\ ("id" \notin DOMAIN loadCall.info \/ "name" \notin DOMAIN loadCall.info)) =>
        /\ lastRefresh.outcome = "ok"
        /\ snapCycle = 1
        /\ DOMAIN clusters = { loadCall.qr[i]["id"] : i \in ValidRows(loadCall.qr) }
        /\ \A k \in DOMAIN clusters :
              \E i \in ValidRows(loadCall.qr) :
                  /\ loadCall.qr[i]["id"] = k
                  /\ clusters[k].Name = loadCall.qr[i]["name"]

\* The local provider answered with its id and no name, the rows carried
\* another cluster only
C14_Witness ==
    /\ loadCall.done /\ task.pc = "select"
    /\ DOMAIN loadCall.info = { "id", "provider" }
    /\ loadCall.info["id"] = LocalClusterID
    /\ Len(loadCall.qr) = 2
    /\ DOMAIN clusters = { << "b" >> }
    /\ lastRefresh.outcome = "ok"

----------------------------------------------------------------------------
(* Properties of the read operations *)

\* C15: for a cluster id that is not a key of the snapshot, NameFor returns
\* the empty string, NameIDFor returns the id unchanged and InfoFor returns
\* nil, and the call leaves the snapshot as it is.
C15_UnknownClusterFallback ==
    [][\A r \in Readers :
         (/\ readers[r].pc = "rlocked"
          /\ readers'[r].pc = "done"
          /\ readers[r].call.op \in { "InfoFor", "NameFor", "NameIDFor" }
          /\ readers[r].call.arg \notin DOMAIN clusters) =>
             /\ clusters' = clusters
             /\ readers[r].call.op = "NameFor" => readers'[r].result = << >>
             /\ readers[r].call.op = "NameIDFor" => readers'[r].result = readers[r].call.arg
             /\ readers[r].call.op = "InfoFor" => readers'[r].result = [nil |-> TRUE]]_vars

\* NameIDFor has returned for an id that a snapshot with entries does not hold
C15_Witness ==
    \E r \in Readers :
        /\ readers[r].pc = "done"
        /\ readers[r].call.op = "NameIDFor"
        /\ readers[r].call.arg \notin DOMAIN clusters
        /\ DOMAIN clusters # {}
        /\ readers[r].result = readers[r].call.arg

----------------------------------------------------------------------------
(* Properties of LoadBalancerPricing *)

\* rate1 * min(rules, 5) + rate2 * max(rules - 5, 0) + ingressRate * dataGB
\* in float64
TieredFormula(rate1, rate2, ingressRate, rules, dataGB) ==
    Add(Add(Mul(rate1, Min(rules, 5)), Mul(rate2, Max(rules - 5, 0))), Mul(ingressRate, dataGB))

\* Two costs are the same: equal as float64 (the sign of a zero apart), or
\* both not a number
SameCost(x, y) == Equal(x, y) \/ (x.kind = "nan" /\ y.kind = "nan")

\* LoadBalancerPricing has parsed its three rates
RatesParsed == lbCall.pc = "total" \/ (lbCall.pc = "done" /\ ~lbCall.err)

\* LoadBalancerPricing has parsed three rates and they are finite numbers
FiniteRates ==
    /\ RatesParsed
    /\ \A i \in 1..Len(LbFields) : lbCall.rates[i].kind = "num"

\* For the rates parsed, the two branches of lines 261-265 give what the
\* min/max formula gives, and the cost returned is the first rate
FormulaOfCall ==
    /\ \A rules \in 0..MaxRules, dataGB \in 0..MaxDataGB :
          SameCost(TotalCost(lbCall.rates[1], lbCall.rates[2], lbCall.rates[3], rules, dataGB),
                   TieredFormula(lbCall.rates[1], lbCall.rates[2], lbCall.rates[3],
                                 rules, dataGB))
    /\ lbCall.pc = "done" => SameCost(lbCall.Cost, lbCall.rates[1])

\* C16 as claimed: for the rates LoadBalancerPricing has parsed, whatever
\* they are, what its two branches compute is
\* rate1 * min(rules, 5) + rate2 * max(rules - 5, 0) + ingressRate * dataGB
\* for every rule count from 0 on, and the cost returned, for the hard-coded
\* rule count 1 and data 0, is the first-five-rule rate.
C16_TieredFormulaAnyRate == RatesParsed => FormulaOfCall

\* C16, amended: with three rates that are finite numbers, what the two
\* branches of LoadBalancerPricing compute is
\* rate1 * min(rules, 5) + rate2 * max(rules - 5, 0) + ingressRate * dataGB,
\* in float64, for every rule count from 0 on and every amount of data, and
\* the cost returned, for the hard-coded rule count 1 and data 0, is the
\* first-five-rule rate.
C16_TieredFormula == FiniteRates => FormulaOfCall

\* 0.145 and 0.025 as float64
CostOfWitness == ParseFloat(<< "0", ".", "1", "4", "5" >>).val
RateOfWitness == ParseFloat(<< "0", ".", "0", "2", "5" >>).val

\* LoadBalancerPricing has returned 0.025 for rates that differ; with five
\* rules exactly and 2 GB of data the two branches give 0.145
C16_Witness ==
    /\ lbCall.pc = "done" /\ ~lbCall.err
    /\ lbCall.cpricing.FirstFiveForwardingRulesCost = << "0", ".", "0", "2", "5" >>
    /\ lbCall.cpricing.AdditionalForwardingRuleCost = << "0", ".", "0", "1" >>
    /\ lbCall.cpricing.LBIngressDataCost = << "1", "e", "-", "2" >>
    /\ lbCall.Cost = RateOfWitness
    /\ TotalCost(lbCall.rates[1], lbCall.rates[2], lbCall.rates[3], 5, 2) = CostOfWitness

----------------------------------------------------------------------------
(* Properties of SplitNameID *)

\* C17 as claimed: SplitNameID of a string with a "/" returns as name what
\* is before the first "/" and as id all that is after it, further "/"
\* included; of a string with no "/" it returns the string as id and the
\* empty name.
C17_SplitOnFirstSlash ==
    nameCall.done =>
        LET nameID == nameCall.nameID
            first  == CHOOSE i \in 0..Len(nameID) :
                         /\ i > 0 => nameID[i] = "/"
                         /\ \A j \in 1..Len(nameID) : nameID[j] = "/" => (i > 0 /\ i <= j)
        IN  IF first = 0
            THEN nameCall.split = [id |-> nameID, name |-> << >>]
            ELSE /\ nameCall.split.name = SubSeq(nameID, 1, first - 1)
                 /\ nameCall.split.id = SubSeq(nameID, first + 1, Len(nameID))

----------------------------------------------------------------------------
(* Properties of refreshClusters *)

\* C18 as claimed: refreshClusters replaces the snapshot only by a map built
\* from a row list; when the query returns no error and a result that is
\* not a row list, the snapshot is left as it is and is never the nil map.
C18_SnapshotNeverNil ==
    /\ snapCycle >= 0
    /\ (lastRefresh.outcome = "ok" /\ ~loadCall.done) => snapCycle = 0

----------------------------------------------------------------------------
(* Properties of concurrent StopRefresh calls *)

\* C19 as claimed: whatever the interleaving of StopRefresh calls that run
\* on different threads at the same time, close() hits the stop channel at
\* most once and no call panics.
C19_ClosedOnceConcurrently ==
    stopClosed <= 1 /\ fault = FALSE

----------------------------------------------------------------------------
(* Properties of NodePricing before the first rebuild *)

\* C20 as claimed: after any sequence of DownloadPricingData, UpdateConfig
\* and NodePricing calls, and before the first successful rebuild as well,
\* NodePricing for a key with no GPU type finds the entry of its tag and
\* returns a Node without a fault.
C20_NoGpuKeyNeverFaults ==
    (nodeCall.phase \in { "priced", "fault" } /\ GPUType(nodeCall.key) = "") =>
        /\ nodeCall.phase = "priced"
        /\ nodeCall.tag \in { << "default" >>, << "default", "spot" >> }

----------------------------------------------------------------------------
(* Properties of the local entry's key *)

\* C21: after a successful refresh in which the local provider answered with
\* an id and a name, the process's own cluster id, env.GetClusterID(), is a
\* key of the snapshot, whatever id the local provider reported.
C21_OwnIdIsAKey ==
    (/\ loadCall.done /\ task.pc = "select"
     /\ lastRefresh.outcome = "ok"
     /\ "id" \in DOMAIN loadCall.info
     /\ "name" \in DOMAIN loadCall.info) =>
        LocalClusterID \in DOMAIN clusters

----------------------------------------------------------------------------
(* Properties of the table AllNodePricing returns *)

\* C22: every read of the rate table's contents is serialized with the
\* writes of DownloadPricingData by DownloadPricingDataLock: a caller that
\* reads the value AllNodePricing returned never reads while a
\* DownloadPricingData holds the write lock, and it reads what the table held
\* when AllNodePricing returned, whatever DownloadPricingData ran since.
C22_ReturnedTableSerialized ==
    allCall.phase # "none" =>
        /\ ~allCall.locked
        /\ allCall.read = allCall.returned

====
